---- MODULE Spec2Model ----
(***************************************************************************)
(* Paper-trading ledger (OrderEngine) on top of the quote provider         *)
(* (MarketDataService, Alpha Vantage variant).                             *)
(*                                                                         *)
(* Strings whose characters the code inspects (symbols) are sequences of   *)
(* one-character strings.  Prices handed out by the upstream are integers  *)
(* (the unit is left open); the average price of a position is the exact   *)
(* quotient the code computes, kept as a reduced fraction [n, d].  The     *)
(* rounding of IEEE-754 doubles is not modelled.                           *)
(*                                                                         *)
(* placeOrder is asynchronous: an action is one run of the event loop, from *)
(* the call to the await on the upstream request, or from the upstream's    *)
(* answer to the end of placeOrder.  A call that finds a fresh quote in the *)
(* cache awaits only settled promises and runs to its end in one action.    *)
(***************************************************************************)
EXTENDS Integers, Sequences, FiniteSets, TLC

VARIABLES
    balance,      \* OrderEngine.balance
    positions,    \* OrderEngine.positions : symbol -> Position
    orders,       \* OrderEngine.orders
    quoteCache,   \* MarketDataService.quoteCache : formatted symbol -> CacheItem
    now,          \* Date.now()
    calls,        \* placeOrder invocations suspended on their upstream request
    lastReturn,   \* the latest finished placeOrder: its settled promise, its
                  \* limitPrice argument and the outcome of its quote lookup
    chartCache,   \* MarketDataService.chartCache : symbol_interval -> CacheItem
    searchCache,  \* MarketDataService.searchCache : keywords -> CacheItem
    cache,        \* the proxy server's cache : symbol_interval_range -> CacheItem
    requests,     \* service calls and server handlers suspended on an upstream
    lastResult,   \* the latest finished service call or server response
    priceInfo,    \* App state priceInfo: the quote shown, if any
    shown,        \* App state positions: references to Position objects
    symbolText,   \* a string handed to formatSymbol
    selectedSymbol,  \* App state selectedSymbol
    quantity,        \* App state quantity
    isPriceLoading,  \* App state isPriceLoading
    timers,          \* the intervals set and not cleared: the symbol each polls
    effectDue,       \* why the polling effect has to run after this render, or "none"
    fetchCause,      \* what invoked fetchPrice last: "mount", "selected", "timer",
                     \* "callback" (a new fetchPrice callback), or "none"
    mounted          \* whether App is mounted

vars == <<balance, positions, orders, quoteCache, now, calls, lastReturn,
          chartCache, searchCache, cache, requests, lastResult, priceInfo,
          shown, symbolText, selectedSymbol, quantity, isPriceLoading, timers,
          effectDue, fetchCause, mounted>>

\* the state of the App component beyond priceInfo and positions
uiState == <<selectedSymbol, quantity, isPriceLoading, timers, effectDue, fetchCause,
             mounted>>

ledger == <<balance, positions, orders>>

\* what the quote provider, the proxy server and the App hold besides the quote
\* cache
beyondEngine == <<chartCache, searchCache, cache, requests, lastResult, priceInfo,
                  shown, symbolText, uiState>>

----------------------------------------------------------------------------
(* Bounds of the exploration *)

MaxOrders == 3
MaxLimitOrders == 1

(* Program constants *)

SeedBalance == 1000000
CACHE_TTL == 5 * 60 * 1000

\* the readings of the clock, and the placeOrder calls that may be suspended at once
ClockReadings == {0, CACHE_TTL}
CallSlots == {1}

\* an optional value is a sequence of at most one element
Undefined == <<>>
Some(x) == <<x>>

----------------------------------------------------------------------------
(* Strings as character sequences *)

LowerChars == <<"a","b","c","d","e","f","g","h","i","j","k","l","m",
                "n","o","p","q","r","s","t","u","v","w","x","y","z">>
UpperChars == <<"A","B","C","D","E","F","G","H","I","J","K","L","M",
                "N","O","P","Q","R","S","T","U","V","W","X","Y","Z">>

WhiteSpace == {" ", "\t", "\n"}

ToUpperChar(c) ==
    IF \E i \in 1..26 : LowerChars[i] = c
    THEN UpperChars[CHOOSE i \in 1..26 : LowerChars[i] = c]
    ELSE c

toUpperCase(s) == [i \in 1..Len(s) |-> ToUpperChar(s[i])]

RECURSIVE TrimLeft(_)
TrimLeft(s) ==
    IF s # <<>> /\ Head(s) \in WhiteSpace THEN TrimLeft(Tail(s)) ELSE s

RECURSIVE TrimRight(_)
TrimRight(s) ==
    IF s # <<>> /\ s[Len(s)] \in WhiteSpace
    THEN TrimRight(SubSeq(s, 1, Len(s) - 1)) ELSE s

trim(s) == TrimRight(TrimLeft(s))

includes(s, c) == \E i \in 1..Len(s) : s[i] = c

\* a variant of formatSymbol that appends the suffix to every nonempty symbol
formatSymbol_AlwaysAppends(symbol) ==
    LET clean == toUpperCase(trim(symbol))
    IN  IF Len(clean) > 0
        THEN clean \o <<".", "N", "S">>
        ELSE clean

formatSymbol(symbol) ==
    LET clean == toUpperCase(trim(symbol))
    IN  IF ~includes(clean, ".") /\ Len(clean) > 0
        THEN clean \o <<".", "N", "S">>
        ELSE clean

Digits == <<"0","1","2","3","4","5","6","7","8","9">>

DigitVal(c) == (CHOOSE i \in 1..10 : Digits[i] = c) - 1

RECURSIVE ParseDigits(_, _)
ParseDigits(s, acc) ==
    IF s = <<>> \/ ~(\E i \in 1..10 : Digits[i] = Head(s))
    THEN acc
    ELSE ParseDigits(Tail(s), 10 * acc + DigitVal(Head(s)))

\* the value of a text that starts with no digit; a field missing from a
\* response is the empty text here (parseFloat(undefined) is NaN as well)
NaN == [n |-> 0, d |-> 0]

StartsWithDigit(s) == s # <<>> /\ \E i \in 1..10 : Digits[i] = Head(s)

parseFloat(s) == IF StartsWithDigit(s) THEN ParseDigits(s, 0) ELSE NaN

parseInt(s) == IF StartsWithDigit(s) THEN ParseDigits(s, 0) ELSE NaN

----------------------------------------------------------------------------
(* Exact quotients *)

RECURSIVE GCD(_, _)
GCD(a, b) == IF b = 0 THEN a ELSE GCD(b, a % b)

Abs(x) == IF x < 0 THEN -x ELSE x

Sign(i) == IF i > 0 THEN 1 ELSE IF i < 0 THEN 0 - 1 ELSE 0

\* n / d in lowest terms, for d >= 0; with d = 0 it is Infinity, -Infinity or
\* NaN: [n |-> 1, -1 or 0, d |-> 0]
Frac(n, d) ==
    IF d = 0 THEN [n |-> Sign(n), d |-> 0]
    ELSE LET g == GCD(Abs(n), d)
         IN  [n |-> n \div g, d |-> d \div g]

Num(i) == [n |-> i, d |-> 1]

FracTimes(r, i) == Frac(r.n * i, r.d)

FracPlus(r, s) == Frac(r.n * s.d + s.n * r.d, r.d * s.d)


FracMinus(r, s) == Frac(r.n * s.d - s.n * r.d, r.d * s.d)

\* r / s; a zero divisor gives Infinity, -Infinity or NaN
FracDivide(r, s) ==
    IF s.n = 0 THEN [n |-> Sign(r.n), d |-> 0]
    ELSE Frac(Sign(s.n) * r.n * s.d, r.d * Abs(s.n))

FracOver(r, i) == FracDivide(r, Num(i))

----------------------------------------------------------------------------
(* Inputs *)

RELIANCE == <<"R","E","L","I","A","N","C","E">>
RELIANCE_NS == RELIANCE \o <<".","N","S">>

Symbols == {RELIANCE, RELIANCE_NS}
Quantities == {5, 10}
LimitPrices == {Undefined, Some(0), Some(150)}
OrderIds == {"k1"}

Intent(symbol, type, side, qty) ==
    [symbol |-> symbol, type |-> type, side |-> side, quantity |-> qty]

MarketIntents ==
    { Intent(RELIANCE_NS, "market", side, q) : side \in {"buy", "sell"}, q \in Quantities }
    \cup { Intent(RELIANCE, "market", "buy", 10) }

LimitIntents ==
    { Intent(RELIANCE_NS, "limit", "buy", 5), Intent(RELIANCE, "limit", "sell", 10) }

\* the arguments of a placeOrder call
PlaceOrderArgs ==
    [order : MarketIntents, limitPrice : {Undefined, Some(150)}]
    \cup [order : LimitIntents, limitPrice : LimitPrices]

QuoteFields ==
    { [price |-> <<"1","0","0">>, change |-> 1, changePercent |-> 1, day |-> "d1"],
      [price |-> <<"2","0","0">>, change |-> 2, changePercent |-> 1, day |-> "d2"] }

UpstreamResponses ==
    { [transport |-> "failed"],
      [transport |-> "ok", errorMessage |-> TRUE, note |-> FALSE, hasQuote |-> FALSE],
      [transport |-> "ok", errorMessage |-> FALSE, note |-> TRUE, hasQuote |-> FALSE],
      [transport |-> "ok", errorMessage |-> FALSE, note |-> FALSE, hasQuote |-> FALSE] }
    \cup
    { [transport |-> "ok", errorMessage |-> FALSE, note |-> FALSE, hasQuote |-> TRUE,
       quote |-> q] : q \in QuoteFields }

----------------------------------------------------------------------------
(* MarketDataService.getLatestPrice *)

\* variant: an entry is still served when its age equals the TTL
CacheFresh_Inclusive(cached) == now - cached.timestamp <= CACHE_TTL

CacheFresh(cached) == now - cached.timestamp < CACHE_TTL

CacheHit(formatted) ==
    formatted \in DOMAIN quoteCache /\ CacheFresh(quoteCache[formatted])

Fulfilled(data) == [ok |-> TRUE, data |-> data]
Rejected(error) == [ok |-> FALSE, error |-> error]

\* the body of the try block, from the upstream response to the returned quote
ParseQuote(formatted, resp) ==
    IF resp.transport = "failed" THEN Rejected("Failed to fetch")
    ELSE IF resp.errorMessage THEN Rejected("Symbol not found")
    ELSE IF resp.note THEN Rejected("API rate limit reached")
    ELSE IF ~resp.hasQuote THEN Rejected("No data found for this symbol")
    ELSE Fulfilled([symbol |-> formatted,
                    price |-> parseFloat(resp.quote.price),
                    change |-> resp.quote.change,
                    changePercent |-> resp.quote.changePercent,
                    lastUpdated |-> resp.quote.day])

\* variant: a fetched quote fills an empty slot and never replaces an entry
CacheAfter_KeepsEntry(formatted, outcome) ==
    IF outcome.ok /\ formatted \notin DOMAIN quoteCache
    THEN [k \in DOMAIN quoteCache \cup {formatted} |->
            IF k = formatted THEN [data |-> outcome.data, timestamp |-> now]
            ELSE quoteCache[k]]
    ELSE quoteCache

CacheAfter(formatted, outcome) ==
    IF outcome.ok
    THEN [k \in DOMAIN quoteCache \cup {formatted} |->
            IF k = formatted THEN [data |-> outcome.data, timestamp |-> now]
            ELSE quoteCache[k]]
    ELSE quoteCache

----------------------------------------------------------------------------
(* OrderEngine *)

Truthy(x) == x # Undefined /\ x[1] # 0

MapSet(m, k, v) == [x \in DOMAIN m \cup {k} |-> IF x = k THEN v ELSE m[x]]
MapDelete(m, k) == [x \in DOMAIN m \ {k} |-> m[x]]

\* variant: a limitPrice that is passed wins, whatever the type of the order
ExecutionPrice_LimitFirst(order, limitPrice, quote) ==
    IF Truthy(limitPrice) THEN limitPrice[1] ELSE quote.price

ExecutionPrice(order, limitPrice, quote) ==
    IF order.type = "market" THEN quote.price
    ELSE IF Truthy(limitPrice) THEN limitPrice[1] ELSE quote.price

\* variant: every order is created filled
NewOrder_AlwaysFilled(order, limitPrice, quote, id) ==
    [symbol |-> order.symbol, type |-> order.type, side |-> order.side,
     quantity |-> order.quantity,
     id |-> id,
     price |-> IF order.type = "market" THEN quote.price
               ELSE IF Truthy(limitPrice) THEN limitPrice[1] ELSE quote.price,
     status |-> "filled",
     timestamp |-> now]

NewOrder(order, limitPrice, quote, id) ==
    [symbol |-> order.symbol, type |-> order.type, side |-> order.side,
     quantity |-> order.quantity,
     id |-> id,
     price |-> ExecutionPrice(order, limitPrice, quote),
     status |-> IF order.type = "market" THEN "filled" ELSE "pending",
     timestamp |-> now]

NewPosition(order) ==
    [symbol |-> order.symbol, quantity |-> order.quantity,
     averagePrice |-> Num(order.price), currentPrice |-> order.price,
     pnl |-> Num(0), pnlPercent |-> Num(0)]

\* variant: the new average is the plain mean of the old average and the price
BuyPositions_Unweighted(pos, order) ==
    IF order.symbol \in DOMAIN pos
    THEN LET existing == pos[order.symbol]
         IN  MapSet(pos, order.symbol,
                    [existing EXCEPT
                        !.quantity = existing.quantity + order.quantity,
                        !.averagePrice =
                            FracOver(FracPlus(existing.averagePrice, Num(order.price)), 2)])
    ELSE MapSet(pos, order.symbol, NewPosition(order))

\* variant: a buy of a held symbol adds the quantity and keeps the old average
BuyPositions_KeepsAverage(pos, order) ==
    IF order.symbol \in DOMAIN pos
    THEN MapSet(pos, order.symbol,
                [pos[order.symbol] EXCEPT !.quantity = @ + order.quantity])
    ELSE MapSet(pos, order.symbol, NewPosition(order))

BuyPositions(pos, order) ==
    IF order.symbol \in DOMAIN pos
    THEN LET existing == pos[order.symbol]
             cost == order.price * order.quantity
             totalQty == existing.quantity + order.quantity
             totalCost == FracPlus(FracTimes(existing.averagePrice, existing.quantity),
                                   Num(cost))
         IN  MapSet(pos, order.symbol,
                    [existing EXCEPT !.quantity = totalQty,
                                     !.averagePrice = FracOver(totalCost, totalQty)])
    ELSE MapSet(pos, order.symbol, NewPosition(order))

\* variant: the position is deleted only when the remaining quantity is negative
SellPositions_DeletesBelowZero(pos, order) ==
    IF order.symbol \in DOMAIN pos
    THEN LET existing == pos[order.symbol]
             remainingQty == existing.quantity - order.quantity
         IN  IF remainingQty < 0
             THEN MapDelete(pos, order.symbol)
             ELSE MapSet(pos, order.symbol, [existing EXCEPT !.quantity = remainingQty])
    ELSE pos

\* variant: the position is never deleted
SellPositions_NeverDeletes(pos, order) ==
    IF order.symbol \in DOMAIN pos
    THEN MapSet(pos, order.symbol,
                [pos[order.symbol] EXCEPT !.quantity = @ - order.quantity])
    ELSE pos

\* variant: a sell that leaves a holding sets its average to the sell price
SellPositions_Reaverages(pos, order) ==
    IF order.symbol \in DOMAIN pos
    THEN LET existing == pos[order.symbol]
             remainingQty == existing.quantity - order.quantity
         IN  IF remainingQty <= 0
             THEN MapDelete(pos, order.symbol)
             ELSE MapSet(pos, order.symbol,
                         [existing EXCEPT !.quantity = remainingQty,
                                          !.averagePrice = Num(order.price)])
    ELSE pos

\* variant: a sell of a symbol that is not held opens a short position
SellPositions_OpensShort(pos, order) ==
    IF order.symbol \in DOMAIN pos
    THEN LET existing == pos[order.symbol]
             remainingQty == existing.quantity - order.quantity
         IN  IF remainingQty <= 0
             THEN MapDelete(pos, order.symbol)
             ELSE MapSet(pos, order.symbol, [existing EXCEPT !.quantity = remainingQty])
    ELSE MapSet(pos, order.symbol,
                [NewPosition(order) EXCEPT !.quantity = 0 - order.quantity])

SellPositions(pos, order) ==
    IF order.symbol \in DOMAIN pos
    THEN LET existing == pos[order.symbol]
             remainingQty == existing.quantity - order.quantity
         IN  IF remainingQty <= 0
             THEN MapDelete(pos, order.symbol)
             ELSE MapSet(pos, order.symbol, [existing EXCEPT !.quantity = remainingQty])
    ELSE pos

\* variant: a sell debits the balance as a buy does
updatePortfolio_SellDebits(bal, pos, order) ==
    LET cost == order.price * order.quantity
    IN  IF order.side = "buy"
        THEN [balance |-> bal - cost, positions |-> BuyPositions(pos, order)]
        ELSE [balance |-> bal - cost, positions |-> SellPositions(pos, order)]

\* variant: a buy that costs more than the balance is not applied
updatePortfolio_RequiresFunds(bal, pos, order) ==
    LET cost == order.price * order.quantity
    IN  IF order.side = "buy"
        THEN IF cost > bal
             THEN [balance |-> bal, positions |-> pos]
             ELSE [balance |-> bal - cost, positions |-> BuyPositions(pos, order)]
        ELSE [balance |-> bal + cost, positions |-> SellPositions(pos, order)]

updatePortfolio(bal, pos, order) ==
    LET cost == order.price * order.quantity
    IN  IF order.side = "buy"
        THEN [balance |-> bal - cost, positions |-> BuyPositions(pos, order)]
        ELSE [balance |-> bal + cost, positions |-> SellPositions(pos, order)]

----------------------------------------------------------------------------
(* State machine *)

NoReturn == [kind |-> "none"]

\* the settled promise of a call of the quote provider, or the response of the
\* server: its outcome, and where it comes from: "cache", "upstream", or "none"
\* when the call returns without looking at either
Result(op, args, key, outcome, source) ==
    [kind |-> "result", op |-> op, args |-> args, key |-> key, outcome |-> outcome,
     source |-> source]

Init ==
    /\ balance = SeedBalance
    /\ positions = <<>>
    /\ orders = <<>>
    /\ quoteCache = <<>>
    /\ now = 0
    /\ calls = <<>>
    /\ lastReturn = NoReturn
    /\ chartCache = <<>>
    /\ searchCache = <<>>
    /\ cache = <<>>
    /\ requests = <<>>
    /\ lastResult = NoReturn
    /\ priceInfo = Undefined
    /\ shown = {}
    /\ symbolText = <<>>
    /\ selectedSymbol = RELIANCE_NS
    /\ quantity = 1
    /\ isPriceLoading = FALSE
    /\ timers = <<>>
    /\ effectDue = "mount"
    /\ fetchCause = "none"
    /\ mounted = TRUE

LimitOrdersPlaced ==
    Cardinality({i \in 1..Len(orders) : orders[i].type = "limit"})
    + Cardinality({c \in DOMAIN calls : calls[c].order.type = "limit"})

FreeCallIds == CallSlots \ DOMAIN calls

CanCall(order) ==
    /\ Len(orders) + Cardinality(DOMAIN calls) < MaxOrders
    /\ order.type = "limit" => LimitOrdersPlaced < MaxLimitOrders

\* variant: the new order is put in front of the history
Settle_Prepends(order, limitPrice, quote, id) ==
    LET newOrder == NewOrder(order, limitPrice, quote, id)
        after == IF newOrder.status = "filled"
                 THEN updatePortfolio(balance, positions, newOrder)
                 ELSE [balance |-> balance, positions |-> positions]
    IN  /\ balance' = after.balance
        /\ positions' = after.positions
        /\ orders' = <<newOrder>> \o orders
        /\ lastReturn' = [kind |-> "order", order |-> newOrder,
                          limitPrice |-> limitPrice, quote |-> Fulfilled(quote)]

\* variant: a new quote fills the limit orders that are waiting
Settle_FillsPending(order, limitPrice, quote, id) ==
    LET newOrder == NewOrder(order, limitPrice, quote, id)
        after == IF newOrder.status = "filled"
                 THEN updatePortfolio(balance, positions, newOrder)
                 ELSE [balance |-> balance, positions |-> positions]
    IN  /\ balance' = after.balance
        /\ positions' = after.positions
        /\ orders' = Append([i \in 1..Len(orders) |->
                                IF orders[i].status = "pending"
                                THEN [orders[i] EXCEPT !.status = "filled"]
                                ELSE orders[i]],
                            newOrder)
        /\ lastReturn' = [kind |-> "order", order |-> newOrder,
                          limitPrice |-> limitPrice, quote |-> Fulfilled(quote)]

\* variant: the balance the call saw before its await is written back, so that
\* the change of a call that completed during the await is lost
Settle_LosesUpdate(order, limitPrice, quote, id) ==
    LET newOrder == NewOrder(order, limitPrice, quote, id)
        seen == IF Cardinality(DOMAIN calls) > 1 THEN SeedBalance ELSE balance
        after == IF newOrder.status = "filled"
                 THEN updatePortfolio(seen, positions, newOrder)
                 ELSE [balance |-> balance, positions |-> positions]
    IN  /\ balance' = after.balance
        /\ positions' = after.positions
        /\ orders' = Append(orders, newOrder)
        /\ lastReturn' = [kind |-> "order", order |-> newOrder,
                          limitPrice |-> limitPrice, quote |-> Fulfilled(quote)]

\* placeOrder from the await on: the order is built from the resolved quote,
\* applied to the portfolio when filled, and appended to the history
Settle(order, limitPrice, quote, id) ==
    LET newOrder == NewOrder(order, limitPrice, quote, id)
        after == IF newOrder.status = "filled"
                 THEN updatePortfolio(balance, positions, newOrder)
                 ELSE [balance |-> balance, positions |-> positions]
    IN  /\ balance' = after.balance
        /\ positions' = after.positions
        /\ orders' = Append(orders, newOrder)
        /\ lastReturn' = [kind |-> "order", order |-> newOrder,
                          limitPrice |-> limitPrice, quote |-> Fulfilled(quote)]

\* placeOrder when getLatestPrice finds a fresh cache entry: no upstream request
\* is made and the call runs to its end
PlaceOrderCached(order, limitPrice, id) ==
    /\ CanCall(order)
    /\ CacheHit(formatSymbol(order.symbol))
    /\ Settle(order, limitPrice, quoteCache[formatSymbol(order.symbol)].data, id)
    /\ UNCHANGED <<quoteCache, now, calls>>
    /\ UNCHANGED beyondEngine

\* placeOrder when the cache has no fresh entry: the upstream request is sent and
\* the call is suspended
PlaceOrderFetch(order, limitPrice) ==
    /\ CanCall(order)
    /\ FreeCallIds # {}
    /\ ~CacheHit(formatSymbol(order.symbol))
    /\ calls' = MapSet(calls, CHOOSE c \in FreeCallIds : \A d \in FreeCallIds : c <= d,
                       [order |-> order, limitPrice |-> limitPrice,
                        formatted |-> formatSymbol(order.symbol)])
    /\ UNCHANGED <<balance, positions, orders, quoteCache, now, lastReturn>>
    /\ UNCHANGED beyondEngine

\* the upstream answers with a usable quote: getLatestPrice caches and returns it
\* and placeOrder resumes
FetchFulfilled(c, resp, id) ==
    /\ c \in DOMAIN calls
    /\ ParseQuote(calls[c].formatted, resp).ok
    /\ quoteCache' = CacheAfter(calls[c].formatted, ParseQuote(calls[c].formatted, resp))
    /\ Settle(calls[c].order, calls[c].limitPrice,
              ParseQuote(calls[c].formatted, resp).data, id)
    /\ calls' = MapDelete(calls, c)
    /\ UNCHANGED now
    /\ UNCHANGED beyondEngine

\* variant: placeOrder catches the failed lookup and records the order at price 0
FetchRejected_RecordsOrder(c, resp) ==
    /\ c \in DOMAIN calls
    /\ ~ParseQuote(calls[c].formatted, resp).ok
    /\ quoteCache' = CacheAfter(calls[c].formatted, ParseQuote(calls[c].formatted, resp))
    /\ LET newOrder == NewOrder(calls[c].order, calls[c].limitPrice, [price |-> 0], "k1")
       IN  /\ orders' = Append(orders, newOrder)
           /\ lastReturn' = [kind |-> "order", order |-> newOrder,
                             limitPrice |-> calls[c].limitPrice,
                             quote |-> ParseQuote(calls[c].formatted, resp)]
    /\ calls' = MapDelete(calls, c)
    /\ UNCHANGED <<balance, positions, now>>
    /\ UNCHANGED beyondEngine

\* the upstream answers with an error, or cannot be reached: getLatestPrice
\* rethrows and the await in placeOrder throws
FetchRejected(c, resp) ==
    /\ c \in DOMAIN calls
    /\ ~ParseQuote(calls[c].formatted, resp).ok
    /\ quoteCache' = CacheAfter(calls[c].formatted, ParseQuote(calls[c].formatted, resp))
    /\ lastReturn' = [kind |-> "error",
                      error |-> ParseQuote(calls[c].formatted, resp).error,
                      quote |-> ParseQuote(calls[c].formatted, resp)]
    /\ calls' = MapDelete(calls, c)
    /\ UNCHANGED <<balance, positions, orders, now>>
    /\ UNCHANGED beyondEngine

Tick ==
    /\ \E t \in ClockReadings : t > now /\ now' = t
    /\ UNCHANGED <<balance, positions, orders, quoteCache, calls, lastReturn>>
    /\ UNCHANGED beyondEngine

Next ==
    \/ \E a \in PlaceOrderArgs, id \in OrderIds :
            PlaceOrderCached(a.order, a.limitPrice, id)
    \/ \E a \in PlaceOrderArgs : PlaceOrderFetch(a.order, a.limitPrice)
    \/ \E c \in DOMAIN calls, resp \in UpstreamResponses, id \in OrderIds :
            FetchFulfilled(c, resp, id)
    \/ \E c \in DOMAIN calls, resp \in UpstreamResponses : FetchRejected(c, resp)
    \/ Tick

Spec == Init /\ [][Next]_vars

----------------------------------------------------------------------------
(* The order engine under quotes large enough for an order to cost more than   *)
(* the balance, and with Math.random free to return the same value twice       *)

LargeQuoteFields ==
    { [price |-> <<"1","0","0">>, change |-> 1, changePercent |-> 1, day |-> "d1"],
      [price |-> <<"2","0","0","0","0","0">>, change |-> 2, changePercent |-> 1,
       day |-> "d2"] }

LargeResponses ==
    { [transport |-> "ok", errorMessage |-> FALSE, note |-> TRUE, hasQuote |-> FALSE] }
    \cup
    { [transport |-> "ok", errorMessage |-> FALSE, note |-> FALSE, hasQuote |-> TRUE,
       quote |-> q] : q \in LargeQuoteFields }

LargeOrderArgs ==
    [order : { Intent(RELIANCE_NS, "market", "buy", q) : q \in Quantities }
                \cup { Intent(RELIANCE_NS, "market", "sell", 10) },
     limitPrice : {Undefined}]

\* what Math.random().toString(36).substr(2, 9) may return
RandomIds == {"k1", "k2"}

NextLargeOrders ==
    \/ \E a \in LargeOrderArgs, id \in RandomIds :
            PlaceOrderCached(a.order, a.limitPrice, id)
    \/ \E a \in LargeOrderArgs : PlaceOrderFetch(a.order, a.limitPrice)
    \/ \E c \in DOMAIN calls, resp \in LargeResponses, id \in RandomIds :
            FetchFulfilled(c, resp, id)
    \/ \E c \in DOMAIN calls, resp \in LargeResponses : FetchRejected(c, resp)
    \/ Tick

SpecLargeOrders == Init /\ [][NextLargeOrders]_vars

----------------------------------------------------------------------------
(* App: the price fetch and the order handler of the UI.  The App holds the    *)
(* Position objects that getPositions() hands out; an object is identified by  *)
(* its symbol and by the place in the history of the buy that created it.      *)

SelectedSymbol == RELIANCE_NS

\* the position map after the first k orders of a history
RECURSIVE Replay(_, _)
Replay(hist, k) ==
    IF k = 0 THEN <<>>
    ELSE IF hist[k].status = "filled"
         THEN updatePortfolio(0, Replay(hist, k - 1), hist[k]).positions
         ELSE Replay(hist, k - 1)

\* the order that created the Position object now held for a symbol: every
\* filled order on a held symbol sets a new object in the map, a buy in both
\* branches and a sell that leaves a remainder
Born(hist, sym) ==
    CHOOSE i \in 1..Len(hist) :
        /\ hist[i].status = "filled" /\ hist[i].symbol = sym
        /\ \A j \in (i + 1)..Len(hist) :
              ~(hist[j].status = "filled" /\ hist[j].symbol = sym)

Ref(hist, sym) == [symbol |-> sym, born |-> Born(hist, sym)]

\* Array.from(this.positions.values()): the objects of the map themselves
getPositions(hist, pos) == { Ref(hist, sym) : sym \in DOMAIN pos }

\* the three assignments to a Position object
Repriced(pos, price) ==
    LET pnl == FracTimes(FracMinus(Num(price), pos.averagePrice), pos.quantity)
    IN  [pos EXCEPT !.currentPrice = price,
                    !.pnl = pnl,
                    !.pnlPercent =
                        FracTimes(FracDivide(pnl, FracTimes(pos.averagePrice,
                                                            pos.quantity)), 100)]

\* the position map after the forEach over an array of Position objects: every
\* object of the array with the symbol of the quote is repriced, and the map
\* shows it when the object is still the one it holds
Refresh(pos, hist, refs, data) ==
    [sym \in DOMAIN pos |->
        IF sym = data.symbol /\ Ref(hist, sym) \in refs
        THEN Repriced(pos[sym], data.price)
        ELSE pos[sym]]

\* setPositions with a new array: the next render creates a new fetchPrice
\* callback (useCallback on [positions]), which is a dependency of the polling
\* effect, so that the effect is due unless it was already
AfterSetPositions(due) ==
    IF mounted /\ due = "none" THEN "callback" ELSE due

UiIntents ==
    { Intent(SelectedSymbol, "market", "buy", q) : q \in Quantities }
    \cup { Intent(SelectedSymbol, "market", "sell", 5),
           Intent(SelectedSymbol, "limit", "buy", 5) }

\* handlePlaceOrder from the end of placeOrder on
AppSettle(order, limitPrice, quote, id, info) ==
    LET newOrder == NewOrder(order, limitPrice, quote, id)
        after == IF newOrder.status = "filled"
                 THEN updatePortfolio(balance, positions, newOrder)
                 ELSE [balance |-> balance, positions |-> positions]
        hist == Append(orders, newOrder)
        updatedPositions == getPositions(hist, after.positions)
    IN  /\ balance' = after.balance
        /\ orders' = hist
        /\ lastReturn' = [kind |-> "order", order |-> newOrder,
                          limitPrice |-> limitPrice, quote |-> Fulfilled(quote)]
        /\ positions' = Refresh(after.positions, hist, updatedPositions, info)
        /\ shown' = updatedPositions
        /\ effectDue' = AfterSetPositions(effectDue)

\* handlePlaceOrder when placeOrder finds a fresh quote in the cache
HandlePlaceOrderCached(order, id) ==
    /\ priceInfo # Undefined
    /\ ~isPriceLoading
    /\ CanCall(order)
    /\ CacheHit(formatSymbol(order.symbol))
    /\ AppSettle(order, Some(priceInfo[1].price),
                 quoteCache[formatSymbol(order.symbol)].data, id, priceInfo[1])
    /\ UNCHANGED <<quoteCache, now, calls>>
    /\ UNCHANGED <<chartCache, searchCache, cache, requests, lastResult, priceInfo,
                   symbolText>>
    /\ UNCHANGED <<selectedSymbol, quantity, isPriceLoading, timers, fetchCause,
                   mounted>>

\* handlePlaceOrder when placeOrder has to ask the upstream: the handler is
\* suspended with the priceInfo of its render
HandlePlaceOrderFetch(order) ==
    /\ priceInfo # Undefined
    /\ ~isPriceLoading
    /\ CanCall(order)
    /\ FreeCallIds # {}
    /\ ~CacheHit(formatSymbol(order.symbol))
    /\ calls' = MapSet(calls, CHOOSE c \in FreeCallIds : \A d \in FreeCallIds : c <= d,
                       [order |-> order, limitPrice |-> Some(priceInfo[1].price),
                        formatted |-> formatSymbol(order.symbol),
                        priceInfo |-> priceInfo[1]])
    /\ UNCHANGED <<balance, positions, orders, quoteCache, now, lastReturn>>
    /\ UNCHANGED beyondEngine

HandlePlaceOrderFulfilled(c, resp, id) ==
    /\ c \in DOMAIN calls
    /\ ParseQuote(calls[c].formatted, resp).ok
    /\ quoteCache' = CacheAfter(calls[c].formatted, ParseQuote(calls[c].formatted, resp))
    /\ AppSettle(calls[c].order, calls[c].limitPrice,
                 ParseQuote(calls[c].formatted, resp).data, id, calls[c].priceInfo)
    /\ calls' = MapDelete(calls, c)
    /\ UNCHANGED now
    /\ UNCHANGED <<chartCache, searchCache, cache, requests, lastResult, priceInfo,
                   symbolText>>
    /\ UNCHANGED <<selectedSymbol, quantity, isPriceLoading, timers, fetchCause,
                   mounted>>

FreeRequestIds == CallSlots \ DOMAIN requests

\* fetchPrice from the end of getLatestPrice on, with the positions array of the
\* render that created the callback; due is whether the effect is due by then
PriceFetched(data, refs, due) ==
    /\ priceInfo' = Some(data)
    /\ positions' = Refresh(positions, orders, refs, data)
    /\ shown' = refs
    /\ isPriceLoading' = FALSE
    /\ effectDue' = AfterSetPositions(due)

\* fetchPrice, invoked by cause, when getLatestPrice finds a fresh quote in the
\* cache; due is whether the effect is due when the call ends
FetchPriceHit(symbol, cause, due) ==
    /\ CacheHit(formatSymbol(symbol))
    /\ PriceFetched(quoteCache[formatSymbol(symbol)].data, shown, due)
    /\ lastResult' = Result("getLatestPrice", <<symbol>>, formatSymbol(symbol),
                            Fulfilled(quoteCache[formatSymbol(symbol)].data), "cache")
    /\ fetchCause' = cause
    /\ UNCHANGED <<balance, orders, quoteCache, now, calls, lastReturn>>
    /\ UNCHANGED <<chartCache, searchCache, cache, requests, symbolText>>
    /\ UNCHANGED <<selectedSymbol, quantity, mounted>>

\* fetchPrice, invoked by cause, when getLatestPrice has to ask the upstream:
\* the call is suspended as request r
FetchPriceMiss(r, symbol, cause) ==
    /\ r \notin DOMAIN requests
    /\ ~CacheHit(formatSymbol(symbol))
    /\ requests' = MapSet(requests, r,
                          [op |-> "fetchPrice", symbol |-> symbol,
                           formatted |-> formatSymbol(symbol),
                           positions |-> shown])
    /\ isPriceLoading' = TRUE
    /\ fetchCause' = cause
    /\ UNCHANGED <<balance, positions, orders, quoteCache, now, calls, lastReturn>>
    /\ UNCHANGED <<chartCache, searchCache, cache, lastResult, priceInfo, shown,
                   symbolText>>
    /\ UNCHANGED <<selectedSymbol, quantity, mounted>>

\* fetchPrice called by the interval callback, the quote being in the cache
FetchPriceCached(symbol) ==
    /\ FetchPriceHit(symbol, "timer", effectDue)
    /\ UNCHANGED timers

\* fetchPrice called by the interval callback, the upstream being asked
FetchPriceSend(symbol) ==
    /\ FreeRequestIds # {}
    /\ FetchPriceMiss(CHOOSE r \in FreeRequestIds : \A d \in FreeRequestIds : r <= d,
                      symbol, "timer")
    /\ UNCHANGED <<timers, effectDue>>

FetchPriceFulfilled(r, resp) ==
    /\ r \in DOMAIN requests /\ requests[r].op = "fetchPrice"
    /\ ParseQuote(requests[r].formatted, resp).ok
    /\ quoteCache' = CacheAfter(requests[r].formatted,
                                ParseQuote(requests[r].formatted, resp))
    /\ PriceFetched(ParseQuote(requests[r].formatted, resp).data, requests[r].positions,
                    effectDue)
    /\ lastResult' = Result("getLatestPrice", <<requests[r].symbol>>,
                            requests[r].formatted,
                            ParseQuote(requests[r].formatted, resp), "upstream")
    /\ requests' = MapDelete(requests, r)
    /\ UNCHANGED <<balance, orders, now, calls, lastReturn>>
    /\ UNCHANGED <<chartCache, searchCache, cache, symbolText>>
    /\ UNCHANGED <<selectedSymbol, quantity, timers, fetchCause, mounted>>

\* the lookup fails: fetchPrice sets priceError and leaves priceInfo
FetchPriceRejected(r, resp) ==
    /\ r \in DOMAIN requests /\ requests[r].op = "fetchPrice"
    /\ ~ParseQuote(requests[r].formatted, resp).ok
    /\ lastResult' = Result("getLatestPrice", <<requests[r].symbol>>,
                            requests[r].formatted,
                            ParseQuote(requests[r].formatted, resp), "upstream")
    /\ requests' = MapDelete(requests, r)
    /\ isPriceLoading' = FALSE
    /\ UNCHANGED <<balance, positions, orders, quoteCache, now, calls, lastReturn>>
    /\ UNCHANGED <<chartCache, searchCache, cache, priceInfo, shown, symbolText>>
    /\ UNCHANGED <<selectedSymbol, quantity, timers, effectDue, fetchCause, mounted>>

AppResponses ==
    { [transport |-> "ok", errorMessage |-> FALSE, note |-> TRUE, hasQuote |-> FALSE] }
    \cup
    { [transport |-> "ok", errorMessage |-> FALSE, note |-> FALSE, hasQuote |-> TRUE,
       quote |-> q] : q \in QuoteFields }

NextApp ==
    \/ \E o \in UiIntents, id \in OrderIds : HandlePlaceOrderCached(o, id)
    \/ \E o \in UiIntents : HandlePlaceOrderFetch(o)
    \/ \E c \in DOMAIN calls, resp \in AppResponses, id \in OrderIds :
            HandlePlaceOrderFulfilled(c, resp, id)
    \/ \E c \in DOMAIN calls, resp \in AppResponses : FetchRejected(c, resp)
    \/ FetchPriceCached(SelectedSymbol)
    \/ FetchPriceSend(SelectedSymbol)
    \/ \E r \in DOMAIN requests, resp \in AppResponses : FetchPriceFulfilled(r, resp)
    \/ \E r \in DOMAIN requests, resp \in AppResponses : FetchPriceRejected(r, resp)
    \/ Tick

SpecApp == Init /\ [][NextApp]_vars

----------------------------------------------------------------------------
(* MarketDataService called on its own: getLatestPrice and getHistoricalData   *)

\* clock readings around the expiry of an entry written at 0
FineReadings == {0, CACHE_TTL - 1, CACHE_TTL}

Advance(t) ==
    /\ t > now
    /\ now' = t
    /\ UNCHANGED <<balance, positions, orders, quoteCache, calls, lastReturn>>
    /\ UNCHANGED beyondEngine

getLatestPriceCached(symbol) ==
    /\ CacheHit(formatSymbol(symbol))
    /\ lastResult' = Result("getLatestPrice", <<symbol>>, formatSymbol(symbol),
                            Fulfilled(quoteCache[formatSymbol(symbol)].data), "cache")
    /\ UNCHANGED <<balance, positions, orders, quoteCache, now, calls, lastReturn>>
    /\ UNCHANGED <<chartCache, searchCache, cache, requests, priceInfo, shown,
                   symbolText>>
    /\ UNCHANGED uiState

getLatestPriceSend(symbol) ==
    /\ FreeRequestIds # {}
    /\ ~CacheHit(formatSymbol(symbol))
    /\ requests' = MapSet(requests,
                          CHOOSE r \in FreeRequestIds : \A d \in FreeRequestIds : r <= d,
                          [op |-> "getLatestPrice", symbol |-> symbol,
                           formatted |-> formatSymbol(symbol)])
    /\ UNCHANGED <<balance, positions, orders, quoteCache, now, calls, lastReturn>>
    /\ UNCHANGED <<chartCache, searchCache, cache, lastResult, priceInfo, shown,
                   symbolText>>
    /\ UNCHANGED uiState

\* variant: a failed lookup empties the cache entry of the symbol
getLatestPriceAnswered_DropsEntry(r, resp) ==
    /\ r \in DOMAIN requests /\ requests[r].op = "getLatestPrice"
    /\ quoteCache' = IF ParseQuote(requests[r].formatted, resp).ok
                     THEN CacheAfter(requests[r].formatted,
                                     ParseQuote(requests[r].formatted, resp))
                     ELSE MapDelete(quoteCache, requests[r].formatted)
    /\ lastResult' = Result("getLatestPrice", <<requests[r].symbol>>,
                            requests[r].formatted,
                            ParseQuote(requests[r].formatted, resp), "upstream")
    /\ requests' = MapDelete(requests, r)
    /\ UNCHANGED <<balance, positions, orders, now, calls, lastReturn>>
    /\ UNCHANGED <<chartCache, searchCache, cache, priceInfo, shown, symbolText>>
    /\ UNCHANGED uiState

\* the upstream answers: the try block runs to the return or to the rethrow
getLatestPriceAnswered(r, resp) ==
    /\ r \in DOMAIN requests /\ requests[r].op = "getLatestPrice"
    /\ quoteCache' = CacheAfter(requests[r].formatted,
                                ParseQuote(requests[r].formatted, resp))
    /\ lastResult' = Result("getLatestPrice", <<requests[r].symbol>>,
                            requests[r].formatted,
                            ParseQuote(requests[r].formatted, resp), "upstream")
    /\ requests' = MapDelete(requests, r)
    /\ UNCHANGED <<balance, positions, orders, now, calls, lastReturn>>
    /\ UNCHANGED <<chartCache, searchCache, cache, priceInfo, shown, symbolText>>
    /\ UNCHANGED uiState

FiveMin == <<"5","m","i","n">>
OneMin == <<"1","m","i","n">>
Intervals == {FiveMin, OneMin}

\* `${formatted}_${interval}`
ChartKey(formatted, interval) == formatted \o <<"_">> \o interval

ChartHit(cacheKey) ==
    cacheKey \in DOMAIN chartCache /\ CacheFresh(chartCache[cacheKey])

\* an entry of the time series: the time in ms its key parses to, and its fields
Bar(time, open, high, low, close, volume) ==
    [time |-> time, open |-> open, high |-> high, low |-> low, close |-> close,
     volume |-> volume]

Candle(bar) ==
    [time |-> bar.time \div 1000,
     open |-> parseFloat(bar.open), high |-> parseFloat(bar.high),
     low |-> parseFloat(bar.low), close |-> parseFloat(bar.close),
     volume |-> parseInt(bar.volume)]

\* Array.prototype.sort with (a, b) => a.time - b.time, which is stable
InsertByTime(sorted, c) ==
    LET k == Cardinality({i \in 1..Len(sorted) : sorted[i].time <= c.time})
    IN  SubSeq(sorted, 1, k) \o <<c>> \o SubSeq(sorted, k + 1, Len(sorted))

RECURSIVE SortByTime(_)
SortByTime(cs) ==
    IF cs = <<>> THEN <<>>
    ELSE InsertByTime(SortByTime(SubSeq(cs, 1, Len(cs) - 1)), cs[Len(cs)])

TimeSeries ==
    { << Bar(2000, <<"2","0","0">>, <<"2","1","0">>, <<"1","9","0">>, <<"2","0","5">>,
             <<"7">>),
         Bar(1000, <<"1","0","0">>, <<"1","1","0">>, <<"9","0">>, <<"1","0","5">>,
             <<"3">>) >>,
      << Bar(3000, <<"3","0","0">>, <<"3","1","0">>, <<"2","9","0">>, <<"3","0","5">>,
             <<"9">>) >> }

ChartResponses ==
    { [transport |-> "failed"],
      [transport |-> "ok", note |-> TRUE, hasSeries |-> FALSE],
      [transport |-> "ok", note |-> FALSE, hasSeries |-> FALSE] }
    \cup
    { [transport |-> "ok", note |-> FALSE, hasSeries |-> TRUE, series |-> ts] :
        ts \in TimeSeries }

\* the body of the try block of getHistoricalData
ParseChart(resp) ==
    IF resp.transport = "failed" THEN Rejected("Failed to fetch")
    ELSE IF resp.note THEN Rejected("API rate limit reached")
    ELSE IF ~resp.hasSeries THEN Rejected("No chart data found for this symbol")
    ELSE Fulfilled(SortByTime([i \in 1..Len(resp.series) |-> Candle(resp.series[i])]))

ChartCacheAfter(cacheKey, outcome) ==
    IF outcome.ok
    THEN MapSet(chartCache, cacheKey, [data |-> outcome.data, timestamp |-> now])
    ELSE chartCache

getHistoricalDataCached(symbol, interval) ==
    /\ ChartHit(ChartKey(formatSymbol(symbol), interval))
    /\ lastResult' =
          Result("getHistoricalData", <<symbol, interval>>,
                 ChartKey(formatSymbol(symbol), interval),
                 Fulfilled(chartCache[ChartKey(formatSymbol(symbol), interval)].data),
                 "cache")
    /\ UNCHANGED <<balance, positions, orders, quoteCache, now, calls, lastReturn>>
    /\ UNCHANGED <<chartCache, searchCache, cache, requests, priceInfo, shown,
                   symbolText>>
    /\ UNCHANGED uiState

getHistoricalDataSend(symbol, interval) ==
    /\ FreeRequestIds # {}
    /\ ~ChartHit(ChartKey(formatSymbol(symbol), interval))
    /\ requests' = MapSet(requests,
                          CHOOSE r \in FreeRequestIds : \A d \in FreeRequestIds : r <= d,
                          [op |-> "getHistoricalData", symbol |-> symbol,
                           interval |-> interval,
                           cacheKey |-> ChartKey(formatSymbol(symbol), interval)])
    /\ UNCHANGED <<balance, positions, orders, quoteCache, now, calls, lastReturn>>
    /\ UNCHANGED <<chartCache, searchCache, cache, lastResult, priceInfo, shown,
                   symbolText>>
    /\ UNCHANGED uiState

getHistoricalDataAnswered(r, resp) ==
    /\ r \in DOMAIN requests /\ requests[r].op = "getHistoricalData"
    /\ chartCache' = ChartCacheAfter(requests[r].cacheKey, ParseChart(resp))
    /\ lastResult' = Result("getHistoricalData",
                            <<requests[r].symbol, requests[r].interval>>,
                            requests[r].cacheKey, ParseChart(resp), "upstream")
    /\ requests' = MapDelete(requests, r)
    /\ UNCHANGED <<balance, positions, orders, quoteCache, now, calls, lastReturn>>
    /\ UNCHANGED <<searchCache, cache, priceInfo, shown, symbolText>>
    /\ UNCHANGED uiState

NextMarket ==
    \/ \E symbol \in Symbols : getLatestPriceCached(symbol)
    \/ \E symbol \in Symbols : getLatestPriceSend(symbol)
    \/ \E r \in DOMAIN requests, resp \in UpstreamResponses :
            getLatestPriceAnswered(r, resp)
    \/ \E symbol \in Symbols, interval \in Intervals :
            getHistoricalDataCached(symbol, interval)
    \/ \E symbol \in Symbols, interval \in Intervals :
            getHistoricalDataSend(symbol, interval)
    \/ \E r \in DOMAIN requests, resp \in ChartResponses :
            getHistoricalDataAnswered(r, resp)
    \/ \E t \in FineReadings : Advance(t)

SpecMarket == Init /\ [][NextMarket]_vars

----------------------------------------------------------------------------
(* MarketDataService.searchSymbols *)

KeywordT == <<"T">>
KeywordTCS == <<"T","C","S">>
Keywords == {KeywordT, KeywordTCS}

SearchHit(keywords) ==
    keywords \in DOMAIN searchCache /\ CacheFresh(searchCache[keywords])

BestMatches ==
    { << [f1symbol |-> "TCS.BSE", f2name |-> "Tata Consultancy", f3type |-> "Equity",
          f4region |-> "India/Bombay", f9matchScore |-> "1.0000"] >> }

SearchResponses ==
    { [transport |-> "failed"],
      [transport |-> "ok", note |-> TRUE, hasMatches |-> FALSE],
      [transport |-> "ok", note |-> FALSE, hasMatches |-> FALSE] }
    \cup
    { [transport |-> "ok", note |-> FALSE, hasMatches |-> TRUE, bestMatches |-> m] :
        m \in BestMatches }

\* the try block reaches searchCache.set, neither throwing nor returning early
SearchStored(resp) ==
    resp.transport = "ok" /\ ~resp.note /\ resp.hasMatches

SymbolSearch(item) ==
    [symbol |-> item.f1symbol, name |-> item.f2name, type |-> item.f3type,
     region |-> item.f4region, matchScore |-> item.f9matchScore]

\* what searchSymbols returns for an upstream answer: the catch returns []
SearchData(resp) ==
    IF SearchStored(resp)
    THEN [i \in 1..Len(resp.bestMatches) |-> SymbolSearch(resp.bestMatches[i])]
    ELSE <<>>

\* variant: what the catch returns is stored as well
SearchCacheAfter_StoresFailures(keywords, resp) ==
    MapSet(searchCache, keywords, [data |-> SearchData(resp), timestamp |-> now])

\* searchCache.set is reached only past the throw and the early return
SearchCacheAfter(keywords, resp) ==
    IF SearchStored(resp)
    THEN MapSet(searchCache, keywords, [data |-> SearchData(resp), timestamp |-> now])
    ELSE searchCache

\* variant: the length of the keywords is not looked at
searchSymbolsShort_GoesUpstream(keywords) ==
    /\ Len(keywords) < 2
    /\ FreeRequestIds # {}
    /\ requests' = MapSet(requests,
                          CHOOSE r \in FreeRequestIds : \A d \in FreeRequestIds : r <= d,
                          [op |-> "searchSymbols", keywords |-> keywords])
    /\ UNCHANGED <<balance, positions, orders, quoteCache, now, calls, lastReturn>>
    /\ UNCHANGED <<chartCache, searchCache, cache, lastResult, priceInfo, shown,
                   symbolText>>
    /\ UNCHANGED uiState

searchSymbolsShort(keywords) ==
    /\ Len(keywords) < 2
    /\ lastResult' = Result("searchSymbols", <<keywords>>, keywords,
                            Fulfilled(<<>>), "none")
    /\ UNCHANGED <<balance, positions, orders, quoteCache, now, calls, lastReturn>>
    /\ UNCHANGED <<chartCache, searchCache, cache, requests, priceInfo, shown,
                   symbolText>>
    /\ UNCHANGED uiState

searchSymbolsCached(keywords) ==
    /\ ~(Len(keywords) < 2)
    /\ SearchHit(keywords)
    /\ lastResult' = Result("searchSymbols", <<keywords>>, keywords,
                            Fulfilled(searchCache[keywords].data), "cache")
    /\ UNCHANGED <<balance, positions, orders, quoteCache, now, calls, lastReturn>>
    /\ UNCHANGED <<chartCache, searchCache, cache, requests, priceInfo, shown,
                   symbolText>>
    /\ UNCHANGED uiState

searchSymbolsSend(keywords) ==
    /\ ~(Len(keywords) < 2)
    /\ FreeRequestIds # {}
    /\ ~SearchHit(keywords)
    /\ requests' = MapSet(requests,
                          CHOOSE r \in FreeRequestIds : \A d \in FreeRequestIds : r <= d,
                          [op |-> "searchSymbols", keywords |-> keywords])
    /\ UNCHANGED <<balance, positions, orders, quoteCache, now, calls, lastReturn>>
    /\ UNCHANGED <<chartCache, searchCache, cache, lastResult, priceInfo, shown,
                   symbolText>>
    /\ UNCHANGED uiState

searchSymbolsAnswered(r, resp) ==
    /\ r \in DOMAIN requests /\ requests[r].op = "searchSymbols"
    /\ searchCache' = SearchCacheAfter(requests[r].keywords, resp)
    /\ lastResult' = Result("searchSymbols", <<requests[r].keywords>>,
                            requests[r].keywords, Fulfilled(SearchData(resp)),
                            "upstream")
    /\ requests' = MapDelete(requests, r)
    /\ UNCHANGED <<balance, positions, orders, quoteCache, now, calls, lastReturn>>
    /\ UNCHANGED <<chartCache, cache, priceInfo, shown, symbolText>>
    /\ UNCHANGED uiState

----------------------------------------------------------------------------
(* The proxy server: its cache and GET /api/stock/:symbol *)

SERVER_CACHE_TTL == 5 * 60 * 1000

Null == Undefined

getFromCache(key) ==
    IF key \in DOMAIN cache /\ now - cache[key].timestamp < SERVER_CACHE_TTL
    THEN Some(cache[key].data)
    ELSE Null

setCache(key, data) == MapSet(cache, key, [data |-> data, timestamp |-> now])

formatSymbolServer(symbol) ==
    LET clean == toUpperCase(trim(symbol))
    IN  IF ~includes(clean, ".") /\ Len(clean) > 0
        THEN clean \o <<".", "N", "S">>
        ELSE clean

allowedIntervals ==
    { <<"1","m">>, <<"2","m">>, <<"5","m">>, <<"1","5","m">>, <<"3","0","m">>,
      <<"6","0","m">>, <<"9","0","m">>, <<"1","h">>, <<"1","d">>, <<"5","d">>,
      <<"1","w","k">>, <<"1","m","o">>, <<"3","m","o">> }

TruthyText(x) == x # Undefined /\ x[1] # <<>>

\* x || d
OrElse(x, d) == IF Truthy(x) THEN x[1] ELSE d
OrElseText(x, d) == IF TruthyText(x) THEN x[1] ELSE d

\* `${symbol}_${interval}_${range}`
StockKey(symbol, interval, range) ==
    symbol \o <<"_">> \o interval \o <<"_">> \o range

\* what the handler computes before the cache lookup
StockQuery(req) ==
    [symbol |-> formatSymbolServer(req.symbol),
     interval |-> OrElseText(req.interval, <<"5","m">>),
     range |-> OrElseText(req.range, <<"1","d">>)]

StockCacheKey(req) ==
    StockKey(StockQuery(req).symbol, StockQuery(req).interval, StockQuery(req).range)

StockRequests ==
    [symbol : {RELIANCE, RELIANCE_NS},
     interval : {Undefined, Some(<<"5","m">>), Some(<<"7","m">>)},
     range : {Undefined}]

ServerError(status, message) == [ok |-> FALSE, status |-> status, error |-> message]

\* what yahooFinance.quote resolves to, or that it throws
YahooQuotes ==
    { [threw |-> TRUE],
      [threw |-> FALSE, present |-> FALSE],
      [threw |-> FALSE, present |-> TRUE, shortName |-> Undefined,
       longName |-> Some(<<"R","I","L">>), regularMarketPrice |-> Some(100),
       regularMarketChange |-> Some(2), regularMarketChangePercent |-> Undefined,
       regularMarketOpen |-> Some(98), regularMarketDayHigh |-> Undefined,
       regularMarketDayLow |-> Some(97), regularMarketPreviousClose |-> Some(98),
       regularMarketVolume |-> Some(0)],
      [threw |-> FALSE, present |-> TRUE, shortName |-> Undefined,
       longName |-> Undefined, regularMarketPrice |-> Some(0),
       regularMarketChange |-> Undefined, regularMarketChangePercent |-> Undefined,
       regularMarketOpen |-> Undefined, regularMarketDayHigh |-> Undefined,
       regularMarketDayLow |-> Undefined, regularMarketPreviousClose |-> Undefined,
       regularMarketVolume |-> Undefined] }

\* what yahooFinance.chart resolves to, or that it throws
YahooCharts ==
    { [threw |-> TRUE],
      [threw |-> FALSE,
       quotes |-> << [date |-> 1000, open |-> Some(98), high |-> Some(101),
                      low |-> Some(97), close |-> Some(100), volume |-> Undefined],
                     [date |-> 2000, open |-> Some(100), high |-> Some(102),
                      low |-> Undefined, close |-> Some(101), volume |-> Some(5)] >>] }

RECURSIVE SelectSeq2(_, _)
SelectSeq2(qs, keep) ==
    IF qs = <<>> THEN <<>>
    ELSE IF Head(qs) \in keep THEN <<Head(qs)>> \o SelectSeq2(Tail(qs), keep)
    ELSE SelectSeq2(Tail(qs), keep)

\* historical.quotes.filter(...).map(...)
ChartData(chart) ==
    IF chart.threw THEN <<>>
    ELSE LET kept == SelectSeq2(chart.quotes,
                        { q \in {chart.quotes[i] : i \in 1..Len(chart.quotes)} :
                            Truthy(q.open) /\ Truthy(q.high) /\ Truthy(q.low)
                                /\ Truthy(q.close) })
         IN  [i \in 1..Len(kept) |->
                [time |-> kept[i].date \div 1000,
                 open |-> kept[i].open[1], high |-> kept[i].high[1],
                 low |-> kept[i].low[1], close |-> kept[i].close[1],
                 volume |-> OrElse(kept[i].volume, 0)]]

StockResponse(symbol, quote, chart) ==
    [symbol |-> symbol,
     name |-> OrElseText(quote.shortName, OrElseText(quote.longName, symbol)),
     price |-> quote.regularMarketPrice[1],
     change |-> OrElse(quote.regularMarketChange, 0),
     changePercent |-> OrElse(quote.regularMarketChangePercent, 0),
     open |-> OrElse(quote.regularMarketOpen, quote.regularMarketPrice[1]),
     high |-> OrElse(quote.regularMarketDayHigh, quote.regularMarketPrice[1]),
     low |-> OrElse(quote.regularMarketDayLow, quote.regularMarketPrice[1]),
     close |-> OrElse(quote.regularMarketPreviousClose, quote.regularMarketPrice[1]),
     volume |-> OrElse(quote.regularMarketVolume, 0),
     lastUpdated |-> now,
     chartData |-> ChartData(chart)]

\* the quote call returned, and !quote || !quote.regularMarketPrice is false
QuoteUsable(quote) ==
    IF quote.threw THEN FALSE
    ELSE IF ~quote.present THEN FALSE
    ELSE Truthy(quote.regularMarketPrice)

StockArgs(req) == <<req.symbol, req.interval, req.range>>

\* the interval is not one of the allowed: status 400
stockRefused(req) ==
    /\ StockQuery(req).interval \notin allowedIntervals
    /\ lastResult' = Result("stock", StockArgs(req), <<>>,
                            ServerError(400, "Invalid interval"), "none")
    /\ UNCHANGED <<balance, positions, orders, quoteCache, now, calls, lastReturn>>
    /\ UNCHANGED <<chartCache, searchCache, cache, requests, priceInfo, shown,
                   symbolText>>
    /\ UNCHANGED uiState

stockCached(req) ==
    /\ StockQuery(req).interval \in allowedIntervals
    /\ getFromCache(StockCacheKey(req)) # Null
    /\ lastResult' = Result("stock", StockArgs(req), StockCacheKey(req),
                            Fulfilled(getFromCache(StockCacheKey(req))[1]), "cache")
    /\ UNCHANGED <<balance, positions, orders, quoteCache, now, calls, lastReturn>>
    /\ UNCHANGED <<chartCache, searchCache, cache, requests, priceInfo, shown,
                   symbolText>>
    /\ UNCHANGED uiState

\* no fresh entry: the handler awaits yahooFinance.quote
stockSend(req) ==
    /\ StockQuery(req).interval \in allowedIntervals
    /\ getFromCache(StockCacheKey(req)) = Null
    /\ FreeRequestIds # {}
    /\ requests' = MapSet(requests,
                          CHOOSE r \in FreeRequestIds : \A d \in FreeRequestIds : r <= d,
                          [op |-> "stock", phase |-> "quote", args |-> StockArgs(req),
                           symbol |-> StockQuery(req).symbol,
                           cacheKey |-> StockCacheKey(req)])
    /\ UNCHANGED <<balance, positions, orders, quoteCache, now, calls, lastReturn>>
    /\ UNCHANGED <<chartCache, searchCache, cache, lastResult, priceInfo, shown,
                   symbolText>>
    /\ UNCHANGED uiState

\* yahooFinance.quote throws (status 500) or gives no price (status 404)
stockQuoteFailed(r, quote) ==
    /\ r \in DOMAIN requests /\ requests[r].op = "stock"
    /\ requests[r].phase = "quote"
    /\ ~QuoteUsable(quote)
    /\ lastResult' = Result("stock", requests[r].args, requests[r].cacheKey,
                            IF quote.threw
                            THEN ServerError(500, "Failed to fetch data")
                            ELSE ServerError(404, "No data found for symbol"),
                            "upstream")
    /\ requests' = MapDelete(requests, r)
    /\ UNCHANGED <<balance, positions, orders, quoteCache, now, calls, lastReturn>>
    /\ UNCHANGED <<chartCache, searchCache, cache, priceInfo, shown, symbolText>>
    /\ UNCHANGED uiState

\* yahooFinance.quote gives a price: the handler awaits yahooFinance.chart
stockQuoteAnswered(r, quote) ==
    /\ r \in DOMAIN requests /\ requests[r].op = "stock"
    /\ requests[r].phase = "quote"
    /\ QuoteUsable(quote)
    /\ requests' = MapSet(requests, r,
                          [op |-> "stock", phase |-> "chart",
                           args |-> requests[r].args, symbol |-> requests[r].symbol,
                           cacheKey |-> requests[r].cacheKey, quote |-> quote])
    /\ UNCHANGED <<balance, positions, orders, quoteCache, now, calls, lastReturn>>
    /\ UNCHANGED <<chartCache, searchCache, cache, lastResult, priceInfo, shown,
                   symbolText>>
    /\ UNCHANGED uiState

\* yahooFinance.chart answers or throws: the response is built, cached and sent
stockChartAnswered(r, chart) ==
    /\ r \in DOMAIN requests /\ requests[r].op = "stock"
    /\ requests[r].phase = "chart"
    /\ cache' = setCache(requests[r].cacheKey,
                         StockResponse(requests[r].symbol, requests[r].quote, chart))
    /\ lastResult' = Result("stock", requests[r].args, requests[r].cacheKey,
                            Fulfilled(StockResponse(requests[r].symbol,
                                                    requests[r].quote, chart)),
                            "upstream")
    /\ requests' = MapDelete(requests, r)
    /\ UNCHANGED <<balance, positions, orders, quoteCache, now, calls, lastReturn>>
    /\ UNCHANGED <<chartCache, searchCache, priceInfo, shown, symbolText>>
    /\ UNCHANGED uiState

----------------------------------------------------------------------------
(* The four caches side by side: quote, chart and search cache of the client,  *)
(* and the cache of the proxy server                                           *)

\* of each upstream, one answer that is cached and one that is not
CacheResponses ==
    { resp \in UpstreamResponses :
        IF resp.transport = "failed" THEN FALSE
        ELSE IF resp.hasQuote THEN resp.quote.day = "d1" ELSE resp.note }

CacheChartResponses ==
    { resp \in ChartResponses :
        IF resp.transport = "failed" THEN FALSE
        ELSE IF resp.hasSeries THEN Len(resp.series) = 1 ELSE resp.note }

CacheSearchResponses ==
    { resp \in SearchResponses :
        IF resp.transport = "failed" THEN FALSE ELSE resp.hasMatches \/ resp.note }

CacheYahooQuotes ==
    { quote \in YahooQuotes : IF quote.threw THEN TRUE ELSE quote.present }

CacheStockRequests ==
    { req \in StockRequests : req.symbol = RELIANCE /\ req.interval # Undefined }

NextCaches ==
    \/ getLatestPriceCached(RELIANCE)
    \/ getLatestPriceSend(RELIANCE)
    \/ \E r \in DOMAIN requests, resp \in CacheResponses :
            getLatestPriceAnswered(r, resp)
    \/ getHistoricalDataCached(RELIANCE, FiveMin)
    \/ getHistoricalDataSend(RELIANCE, FiveMin)
    \/ \E r \in DOMAIN requests, resp \in CacheChartResponses :
            getHistoricalDataAnswered(r, resp)
    \/ \E keywords \in Keywords : searchSymbolsShort(keywords)
    \/ \E keywords \in Keywords : searchSymbolsCached(keywords)
    \/ \E keywords \in Keywords : searchSymbolsSend(keywords)
    \/ \E r \in DOMAIN requests, resp \in CacheSearchResponses :
            searchSymbolsAnswered(r, resp)
    \/ \E req \in CacheStockRequests : stockRefused(req)
    \/ \E req \in CacheStockRequests : stockCached(req)
    \/ \E req \in CacheStockRequests : stockSend(req)
    \/ \E r \in DOMAIN requests, quote \in CacheYahooQuotes :
            stockQuoteFailed(r, quote)
    \/ \E r \in DOMAIN requests, quote \in CacheYahooQuotes :
            stockQuoteAnswered(r, quote)
    \/ \E r \in DOMAIN requests, chart \in YahooCharts : stockChartAnswered(r, chart)
    \/ \E t \in FineReadings : Advance(t)

SpecCaches == Init /\ [][NextCaches]_vars

----------------------------------------------------------------------------
(* Symbol normalization on its own: the client's formatSymbol and the proxy
   server's formatSymbol applied to symbol strings, and applied again to what
   they return *)

MaxLen == 3

SymbolChars == {"a", "B", " ", "."}

reliance == <<"r","e","l","i","a","n","c","e">>
RELIANCE_BO == RELIANCE \o <<".","B","O">>

\* the symbol strings a caller hands over: every string of at most MaxLen
\* characters, and the two symbols of the examples
SymbolTexts ==
    UNION {[1..k -> SymbolChars] : k \in 0..MaxLen} \cup {reliance, RELIANCE_BO}

InitNormalize ==
    /\ balance = SeedBalance
    /\ positions = <<>>
    /\ orders = <<>>
    /\ quoteCache = <<>>
    /\ now = 0
    /\ calls = <<>>
    /\ lastReturn = NoReturn
    /\ chartCache = <<>>
    /\ searchCache = <<>>
    /\ cache = <<>>
    /\ requests = <<>>
    /\ lastResult = NoReturn
    /\ priceInfo = Undefined
    /\ shown = {}
    /\ symbolText \in SymbolTexts
    /\ selectedSymbol = RELIANCE_NS
    /\ quantity = 1
    /\ isPriceLoading = FALSE
    /\ timers = <<>>
    /\ effectDue = "mount"
    /\ fetchCause = "none"
    /\ mounted = TRUE

\* the client normalizes the string at hand; what it returns is the string at
\* hand of the next call
formatSymbolClientCall ==
    /\ lastResult' = Result("formatSymbol", <<symbolText>>, formatSymbol(symbolText),
                            formatSymbol(symbolText), "none")
    /\ symbolText' = formatSymbol(symbolText)
    /\ UNCHANGED <<balance, positions, orders, quoteCache, now, calls, lastReturn,
                   chartCache, searchCache, cache, requests, priceInfo, shown>>
    /\ UNCHANGED uiState

\* the proxy server normalizes the :symbol parameter of a request
formatSymbolServerCall ==
    /\ lastResult' = Result("formatSymbolServer", <<symbolText>>,
                            formatSymbolServer(symbolText),
                            formatSymbolServer(symbolText), "none")
    /\ symbolText' = formatSymbolServer(symbolText)
    /\ UNCHANGED <<balance, positions, orders, quoteCache, now, calls, lastReturn,
                   chartCache, searchCache, cache, requests, priceInfo, shown>>
    /\ UNCHANGED uiState

NextNormalize ==
    \/ formatSymbolClientCall
    \/ formatSymbolServerCall

SpecNormalize == InitNormalize /\ [][NextNormalize]_vars

----------------------------------------------------------------------------
(* Chart data on its own: getHistoricalData of the Alpha Vantage variant with
   time series that are empty or lack a field, and getHistoricalData of the
   proxy variant, which keeps no cache *)

\* a time series without entries, one whose only entry lacks "3. low", and
\* one complete entry
SparseTimeSeries ==
    { <<>>,
      << Bar(1000, <<"1","0","0">>, <<"1","1","0">>, <<>>, <<"1","0","5">>, <<"3">>) >>,
      << Bar(3000, <<"3","0","0">>, <<"3","1","0">>, <<"2","9","0">>, <<"3","0","5">>,
             <<"9">>) >> }

SparseChartResponses ==
    { [transport |-> "failed"],
      [transport |-> "ok", note |-> TRUE, hasSeries |-> FALSE],
      [transport |-> "ok", note |-> FALSE, hasSeries |-> FALSE] }
    \cup
    { [transport |-> "ok", note |-> FALSE, hasSeries |-> TRUE, series |-> ts] :
        ts \in SparseTimeSeries }

\* what the server answers to GET /api/stock/:symbol: an error body, or a body
\* whose chartData is missing, empty or holds candles
ProxyCandle == [time |-> 1, open |-> 98, high |-> 101, low |-> 97, close |-> 100,
                volume |-> 0]

ProxyChartResponses ==
    { [transport |-> "failed"],
      [transport |-> "ok", error |-> TRUE, chartData |-> Undefined],
      [transport |-> "ok", error |-> FALSE, chartData |-> Undefined],
      [transport |-> "ok", error |-> FALSE, chartData |-> Some(<<>>)],
      [transport |-> "ok", error |-> FALSE, chartData |-> Some(<<ProxyCandle>>)] }

\* the body of the try block of getHistoricalData, proxy variant
ParseProxyChart(data) ==
    IF data.transport = "failed" THEN Rejected("Failed to fetch")
    ELSE IF data.error THEN Rejected("Failed to fetch chart data")
    ELSE IF data.chartData = Undefined
    THEN Rejected("No chart data available for this symbol")
    ELSE IF Len(data.chartData[1]) = 0
    THEN Rejected("No chart data available for this symbol")
    ELSE Fulfilled(data.chartData[1])

proxyGetHistoricalDataSend(symbol, interval) ==
    /\ FreeRequestIds # {}
    /\ requests' = MapSet(requests,
                          CHOOSE r \in FreeRequestIds : \A d \in FreeRequestIds : r <= d,
                          [op |-> "proxyGetHistoricalData", symbol |-> symbol,
                           interval |-> interval,
                           cacheKey |-> formatSymbol(symbol)])
    /\ UNCHANGED <<balance, positions, orders, quoteCache, now, calls, lastReturn>>
    /\ UNCHANGED <<chartCache, searchCache, cache, lastResult, priceInfo, shown,
                   symbolText>>
    /\ UNCHANGED uiState

proxyGetHistoricalDataAnswered(r, data) ==
    /\ r \in DOMAIN requests /\ requests[r].op = "proxyGetHistoricalData"
    /\ lastResult' = Result("proxyGetHistoricalData",
                            <<requests[r].symbol, requests[r].interval>>,
                            requests[r].cacheKey, ParseProxyChart(data), "upstream")
    /\ requests' = MapDelete(requests, r)
    /\ UNCHANGED <<balance, positions, orders, quoteCache, now, calls, lastReturn>>
    /\ UNCHANGED <<chartCache, searchCache, cache, priceInfo, shown, symbolText>>
    /\ UNCHANGED uiState

NextCharts ==
    \/ \E symbol \in Symbols, interval \in Intervals :
            getHistoricalDataCached(symbol, interval)
    \/ \E symbol \in Symbols, interval \in Intervals :
            getHistoricalDataSend(symbol, interval)
    \/ \E r \in DOMAIN requests, resp \in SparseChartResponses :
            getHistoricalDataAnswered(r, resp)
    \/ \E symbol \in Symbols, interval \in Intervals :
            proxyGetHistoricalDataSend(symbol, interval)
    \/ \E r \in DOMAIN requests, data \in ProxyChartResponses :
            proxyGetHistoricalDataAnswered(r, data)
    \/ \E t \in ClockReadings : Advance(t)

SpecCharts == Init /\ [][NextCharts]_vars

----------------------------------------------------------------------------
(* Symbol search on its own: searchSymbols of the Alpha Vantage variant, of the
   proxy variant, and GET /api/search/:query of the proxy server *)

KeywordEmpty == <<>>
KeywordPadded == <<"T", " ">>
SearchKeywords == {KeywordEmpty, KeywordT, KeywordPadded, KeywordTCS}

\* the body the server sends to the client of the proxy variant
Suggestion(symbol, name, exchange, type) ==
    [symbol |-> symbol, name |-> name, exchange |-> exchange, type |-> type]

TCS_NS == <<"T","C","S",".","N","S">>

ProxySearchResponses ==
    { [transport |-> "failed"],
      [transport |-> "ok", data |-> Undefined],
      [transport |-> "ok", data |-> Some(<<>>)],
      [transport |-> "ok",
       data |-> Some(<<Suggestion(TCS_NS, <<"T","a","t","a">>, "NSI", "EQUITY")>>)] }

\* return data || [], and the catch returns []
ProxySearchData(resp) ==
    IF resp.transport = "failed" THEN <<>>
    ELSE IF resp.data = Undefined THEN <<>>
    ELSE resp.data[1]

proxySearchSymbolsShort(keywords) ==
    /\ Len(keywords) < 2
    /\ lastResult' = Result("proxySearchSymbols", <<keywords>>, keywords,
                            Fulfilled(<<>>), "none")
    /\ UNCHANGED <<balance, positions, orders, quoteCache, now, calls, lastReturn>>
    /\ UNCHANGED <<chartCache, searchCache, cache, requests, priceInfo, shown,
                   symbolText>>
    /\ UNCHANGED uiState

proxySearchSymbolsSend(keywords) ==
    /\ ~(Len(keywords) < 2)
    /\ FreeRequestIds # {}
    /\ requests' = MapSet(requests,
                          CHOOSE r \in FreeRequestIds : \A d \in FreeRequestIds : r <= d,
                          [op |-> "proxySearchSymbols", keywords |-> keywords])
    /\ UNCHANGED <<balance, positions, orders, quoteCache, now, calls, lastReturn>>
    /\ UNCHANGED <<chartCache, searchCache, cache, lastResult, priceInfo, shown,
                   symbolText>>
    /\ UNCHANGED uiState

proxySearchSymbolsAnswered(r, resp) ==
    /\ r \in DOMAIN requests /\ requests[r].op = "proxySearchSymbols"
    /\ lastResult' = Result("proxySearchSymbols", <<requests[r].keywords>>,
                            requests[r].keywords, Fulfilled(ProxySearchData(resp)),
                            "upstream")
    /\ requests' = MapDelete(requests, r)
    /\ UNCHANGED <<balance, positions, orders, quoteCache, now, calls, lastReturn>>
    /\ UNCHANGED <<chartCache, searchCache, cache, priceInfo, shown, symbolText>>
    /\ UNCHANGED uiState

endsWith(s, suffix) ==
    Len(s) >= Len(suffix) /\ SubSeq(s, Len(s) - Len(suffix) + 1, Len(s)) = suffix

\* what yahooFinance.search resolves to, or that it throws
YahooSearchQuote(symbol, shortname, longname) ==
    [symbol |-> symbol, shortname |-> shortname, longname |-> longname,
     exchange |-> Undefined, quoteType |-> Undefined]

YahooSearches ==
    { [threw |-> TRUE],
      [threw |-> FALSE, quotes |-> Undefined],
      [threw |-> FALSE,
       quotes |-> Some(<< YahooSearchQuote(Some(TCS_NS), Undefined,
                                           Some(<<"T","a","t","a">>)),
                          YahooSearchQuote(Some(KeywordTCS), Some(<<"T","C","S">>),
                                           Undefined),
                          YahooSearchQuote(Undefined, Undefined, Undefined) >>)] }

ListedInIndia(q) ==
    IF ~TruthyText(q.symbol) THEN FALSE
    ELSE endsWith(q.symbol[1], <<".","N","S">>) \/ endsWith(q.symbol[1], <<".","B","O">>)

\* (results.quotes || []).filter(...).map(...), and [] from the catch
Suggestions(results) ==
    IF results.threw THEN <<>>
    ELSE IF results.quotes = Undefined THEN <<>>
    ELSE LET qs == results.quotes[1]
             kept == SelectSeq2(qs, { q \in {qs[i] : i \in 1..Len(qs)} :
                                        ListedInIndia(q) })
         IN  [i \in 1..Len(kept) |->
                Suggestion(kept[i].symbol[1],
                           OrElseText(kept[i].shortname,
                                      OrElseText(kept[i].longname, kept[i].symbol[1])),
                           IF kept[i].exchange = Undefined THEN "NSE"
                           ELSE kept[i].exchange[1],
                           IF kept[i].quoteType = Undefined THEN "Equity"
                           ELSE kept[i].quoteType[1])]

\* the trimmed query is shorter than 2: [] is sent at once
searchRefused(query) ==
    /\ Len(trim(query)) < 2
    /\ lastResult' = Result("search", <<query>>, trim(query), Fulfilled(<<>>), "none")
    /\ UNCHANGED <<balance, positions, orders, quoteCache, now, calls, lastReturn>>
    /\ UNCHANGED <<chartCache, searchCache, cache, requests, priceInfo, shown,
                   symbolText>>
    /\ UNCHANGED uiState

\* the handler awaits yahooFinance.search; it looks at no cache
searchSend(query) ==
    /\ ~(Len(trim(query)) < 2)
    /\ FreeRequestIds # {}
    /\ requests' = MapSet(requests,
                          CHOOSE r \in FreeRequestIds : \A d \in FreeRequestIds : r <= d,
                          [op |-> "search", args |-> <<query>>,
                           cacheKey |-> trim(query)])
    /\ UNCHANGED <<balance, positions, orders, quoteCache, now, calls, lastReturn>>
    /\ UNCHANGED <<chartCache, searchCache, cache, lastResult, priceInfo, shown,
                   symbolText>>
    /\ UNCHANGED uiState

\* yahooFinance.search answers or throws: the suggestions, or [], are sent
searchAnswered(r, results) ==
    /\ r \in DOMAIN requests /\ requests[r].op = "search"
    /\ lastResult' = Result("search", requests[r].args, requests[r].cacheKey,
                            Fulfilled(Suggestions(results)), "upstream")
    /\ requests' = MapDelete(requests, r)
    /\ UNCHANGED <<balance, positions, orders, quoteCache, now, calls, lastReturn>>
    /\ UNCHANGED <<chartCache, searchCache, cache, priceInfo, shown, symbolText>>
    /\ UNCHANGED uiState

NextSearch ==
    \/ \E keywords \in SearchKeywords : searchSymbolsShort(keywords)
    \/ \E keywords \in SearchKeywords : searchSymbolsCached(keywords)
    \/ \E keywords \in SearchKeywords : searchSymbolsSend(keywords)
    \/ \E r \in DOMAIN requests, resp \in SearchResponses :
            searchSymbolsAnswered(r, resp)
    \/ \E keywords \in SearchKeywords : proxySearchSymbolsShort(keywords)
    \/ \E keywords \in SearchKeywords : proxySearchSymbolsSend(keywords)
    \/ \E r \in DOMAIN requests, resp \in ProxySearchResponses :
            proxySearchSymbolsAnswered(r, resp)
    \/ \E query \in SearchKeywords : searchRefused(query)
    \/ \E query \in SearchKeywords : searchSend(query)
    \/ \E r \in DOMAIN requests, results \in YahooSearches :
            searchAnswered(r, results)
    \/ \E t \in ClockReadings : Advance(t)

SpecSearch == Init /\ [][NextSearch]_vars

----------------------------------------------------------------------------
(* The two endpoints of the proxy server side by side *)

NextProxy ==
    \/ \E req \in CacheStockRequests : stockRefused(req)
    \/ \E req \in CacheStockRequests : stockCached(req)
    \/ \E req \in CacheStockRequests : stockSend(req)
    \/ \E r \in DOMAIN requests, quote \in YahooQuotes : stockQuoteFailed(r, quote)
    \/ \E r \in DOMAIN requests, quote \in YahooQuotes : stockQuoteAnswered(r, quote)
    \/ \E r \in DOMAIN requests, chart \in YahooCharts : stockChartAnswered(r, chart)
    \/ \E query \in SearchKeywords : searchRefused(query)
    \/ \E query \in SearchKeywords : searchSend(query)
    \/ \E r \in DOMAIN requests, results \in YahooSearches :
            searchAnswered(r, results)
    \/ \E t \in FineReadings : Advance(t)

SpecProxy == Init /\ [][NextProxy]_vars

----------------------------------------------------------------------------
(* The order engine with two placeOrder calls suspended at once: each call
   awaits its own quote lookup, and the lookups complete in any order *)

ConcurrentSlots == {1, 2}

ConcurrentArgs ==
    [order : { Intent(RELIANCE_NS, "market", "buy", 10),
               Intent(RELIANCE_NS, "market", "sell", 5),
               Intent(RELIANCE, "market", "buy", 5),
               Intent(RELIANCE_NS, "limit", "buy", 5) },
     limitPrice : {Undefined}]

\* placeOrder up to its await, the call taking the slot c
PlaceOrderFetchAt(c, order, limitPrice) ==
    /\ CanCall(order)
    /\ c \notin DOMAIN calls
    /\ ~CacheHit(formatSymbol(order.symbol))
    /\ calls' = MapSet(calls, c,
                       [order |-> order, limitPrice |-> limitPrice,
                        formatted |-> formatSymbol(order.symbol)])
    /\ UNCHANGED <<balance, positions, orders, quoteCache, now, lastReturn>>
    /\ UNCHANGED beyondEngine

NextConcurrent ==
    \/ \E a \in ConcurrentArgs, id \in OrderIds :
            PlaceOrderCached(a.order, a.limitPrice, id)
    \/ \E c \in ConcurrentSlots, a \in ConcurrentArgs :
            PlaceOrderFetchAt(c, a.order, a.limitPrice)
    \/ \E c \in DOMAIN calls, resp \in AppResponses, id \in OrderIds :
            FetchFulfilled(c, resp, id)
    \/ \E c \in DOMAIN calls, resp \in AppResponses : FetchRejected(c, resp)
    \/ Tick

SpecConcurrent == Init /\ [][NextConcurrent]_vars

----------------------------------------------------------------------------
(* The App component: the polling effect, its interval, the watchlist and the
   order panel *)

PollSlots == {1, 2}
FreePollSlots == PollSlots \ DOMAIN requests

Watchlist == {RELIANCE_NS, TCS_NS}

\* the cleanup of the previous run of the effect: clearInterval(interval)
Cleared(ts) == IF ts = <<>> THEN <<>> ELSE SubSeq(ts, 1, Len(ts) - 1)

\* the effect runs (after mount, or because selectedSymbol or fetchPrice has
\* changed): the previous run is cleaned up, fetchPrice(selectedSymbol) is
\* called and a new interval is set.  Here the quote is in the cache.
PollingEffectHit ==
    /\ mounted
    /\ effectDue # "none"
    /\ FetchPriceHit(selectedSymbol, effectDue, "none")
    /\ timers' = Append(Cleared(timers), selectedSymbol)

\* the effect runs and fetchPrice has to ask the upstream
PollingEffectMiss ==
    /\ mounted
    /\ effectDue # "none"
    /\ FreePollSlots # {}
    /\ FetchPriceMiss(CHOOSE r \in FreePollSlots : \A d \in FreePollSlots : r <= d,
                      selectedSymbol, effectDue)
    /\ effectDue' = "none"
    /\ timers' = Append(Cleared(timers), selectedSymbol)

\* 15 seconds have passed: the i-th interval calls fetchPrice with the symbol
\* of the run of the effect that set it
IntervalHit(i) ==
    /\ i \in DOMAIN timers
    /\ FetchPriceCached(timers[i])

IntervalMiss(i) ==
    /\ i \in DOMAIN timers
    /\ FreePollSlots # {}
    /\ FetchPriceMiss(CHOOSE r \in FreePollSlots : \A d \in FreePollSlots : r <= d,
                      timers[i], "timer")
    /\ UNCHANGED <<timers, effectDue>>

\* a click on a row of the watchlist: setSelectedSymbol(item.s)
SelectSymbol(s) ==
    /\ mounted
    /\ s # selectedSymbol
    /\ selectedSymbol' = s
    /\ effectDue' = "selected"
    /\ UNCHANGED <<balance, positions, orders, quoteCache, now, calls, lastReturn>>
    /\ UNCHANGED <<chartCache, searchCache, cache, requests, lastResult, priceInfo,
                   shown, symbolText>>
    /\ UNCHANGED <<quantity, isPriceLoading, timers, fetchCause, mounted>>

\* App is unmounted: the cleanup of the last run of the effect runs
Unmount ==
    /\ mounted
    /\ mounted' = FALSE
    /\ timers' = Cleared(timers)
    /\ effectDue' = "none"
    /\ UNCHANGED <<balance, positions, orders, quoteCache, now, calls, lastReturn>>
    /\ UNCHANGED <<chartCache, searchCache, cache, requests, lastResult, priceInfo,
                   shown, symbolText>>
    /\ UNCHANGED <<selectedSymbol, quantity, isPriceLoading, fetchCause>>

\* the order the panel submits: the selected symbol and the quantity of the state
PanelIntent(type, side) == Intent(selectedSymbol, type, side, quantity)

\* the panel takes a click: the effect of a selection runs in the commit of the
\* click that made it due, before the next event is handled
PanelReady == mounted /\ effectDue # "selected"

\* of the upstream, a rate-limit answer and one quote
PollResponses == { resp \in AppResponses : resp.hasQuote => resp.quote.day = "d1" }

NextPolling ==
    \/ PollingEffectHit
    \/ PollingEffectMiss
    \/ \E i \in DOMAIN timers : IntervalHit(i)
    \/ \E i \in DOMAIN timers : IntervalMiss(i)
    \/ \E r \in DOMAIN requests, resp \in PollResponses : FetchPriceFulfilled(r, resp)
    \/ \E r \in DOMAIN requests, resp \in PollResponses : FetchPriceRejected(r, resp)
    \/ \E s \in Watchlist : SelectSymbol(s)
    \/ Unmount
    \/ \E id \in OrderIds :
            PanelReady /\ HandlePlaceOrderCached(PanelIntent("limit", "buy"), id)
    \/ PanelReady /\ HandlePlaceOrderFetch(PanelIntent("limit", "buy"))
    \/ \E c \in DOMAIN calls, resp \in PollResponses, id \in OrderIds :
            HandlePlaceOrderFulfilled(c, resp, id)
    \/ \E c \in DOMAIN calls, resp \in PollResponses : FetchRejected(c, resp)
    \/ Tick

SpecPolling == Init /\ [][NextPolling]_vars

----------------------------------------------------------------------------
(* The order panel: the quantity field, its two buttons and the submit button *)

MaxQuantity == 3

\* what the user types into the quantity field: nothing left in it, "0", "2", "-2"
QuantityTexts == { <<>>, <<"0">>, <<"2">>, <<"-", "2">> }

\* Number(text) for the value of an <input type="number">: the empty text is 0
Number(text) ==
    IF text = <<>> THEN 0
    ELSE IF Head(text) = "-"
         THEN IF StartsWithDigit(Tail(text)) THEN 0 - ParseDigits(Tail(text), 0) ELSE NaN
         ELSE parseFloat(text)

Max(a, b) == IF a >= b THEN a ELSE b

\* onChange of the quantity field: setQuantity(Number(e.target.value))
TypeQuantity(text) ==
    /\ mounted
    /\ quantity' = Number(text)
    /\ UNCHANGED <<balance, positions, orders, quoteCache, now, calls, lastReturn>>
    /\ UNCHANGED <<chartCache, searchCache, cache, requests, lastResult, priceInfo,
                   shown, symbolText>>
    /\ UNCHANGED <<selectedSymbol, isPriceLoading, timers, effectDue, fetchCause,
                   mounted>>

\* the upper button: setQuantity(q => q + 1)
IncrementQuantity ==
    /\ mounted
    /\ quantity < MaxQuantity
    /\ quantity' = quantity + 1
    /\ UNCHANGED <<balance, positions, orders, quoteCache, now, calls, lastReturn>>
    /\ UNCHANGED <<chartCache, searchCache, cache, requests, lastResult, priceInfo,
                   shown, symbolText>>
    /\ UNCHANGED <<selectedSymbol, isPriceLoading, timers, effectDue, fetchCause,
                   mounted>>

\* the lower button: setQuantity(q => Math.max(1, q - 1))
DecrementQuantity ==
    /\ mounted
    /\ quantity' = Max(1, quantity - 1)
    /\ UNCHANGED <<balance, positions, orders, quoteCache, now, calls, lastReturn>>
    /\ UNCHANGED <<chartCache, searchCache, cache, requests, lastResult, priceInfo,
                   shown, symbolText>>
    /\ UNCHANGED <<selectedSymbol, isPriceLoading, timers, effectDue, fetchCause,
                   mounted>>

PanelSides == {"buy", "sell"}

NextPanel ==
    \/ \E text \in QuantityTexts : TypeQuantity(text)
    \/ IncrementQuantity
    \/ DecrementQuantity
    \/ FetchPriceSend(selectedSymbol)
    \/ \E r \in DOMAIN requests, resp \in PollResponses : FetchPriceFulfilled(r, resp)
    \/ \E r \in DOMAIN requests, resp \in PollResponses : FetchPriceRejected(r, resp)
    \/ \E side \in PanelSides, id \in OrderIds :
            HandlePlaceOrderCached(PanelIntent("market", side), id)
    \/ \E side \in PanelSides : HandlePlaceOrderFetch(PanelIntent("market", side))
    \/ \E c \in DOMAIN calls, resp \in PollResponses, id \in OrderIds :
            HandlePlaceOrderFulfilled(c, resp, id)
    \/ \E c \in DOMAIN calls, resp \in PollResponses : FetchRejected(c, resp)
    \/ Tick

SpecPanel == Init /\ [][NextPanel]_vars

----------------------------------------------------------------------------
(* Vocabulary of the properties *)

Last(seq) == seq[Len(seq)]

\* a step in which placeOrder has appended an order to the history
Placed == Len(orders') = Len(orders) + 1

Filled(o) == o.status = "filled"

\* cash effect of one order of the history: what a filled buy pays is negative
Cash(o) ==
    IF ~Filled(o) THEN 0
    ELSE IF o.side = "buy" THEN 0 - o.price * o.quantity
    ELSE o.price * o.quantity

RECURSIVE NetCash(_)
NetCash(hist) ==
    IF hist = <<>> THEN 0 ELSE NetCash(SubSeq(hist, 1, Len(hist) - 1)) + Cash(Last(hist))

\* sum of averagePrice * quantity over the positions, as a fraction
RECURSIVE CostOf(_, _)
CostOf(pos, keys) ==
    IF keys = {} THEN Num(0)
    ELSE LET k == CHOOSE x \in keys : TRUE
         IN  FracPlus(FracTimes(pos[k].averagePrice, pos[k].quantity),
                      CostOf(pos, keys \ {k}))

PositionCost == CostOf(positions, DOMAIN positions)

\* the holding of a symbol after the first k orders of a history, by the rules of
\* average-cost accounting: quantity bought minus quantity sold, and the
\* quantity-weighted average of the buy prices, which a sell leaves alone
RECURSIVE Holding(_, _, _)
Holding(hist, sym, k) ==
    IF k = 0 THEN [quantity |-> 0, average |-> Num(0)]
    ELSE LET h == Holding(hist, sym, k - 1)
             o == hist[k]
         IN  IF ~Filled(o) \/ o.symbol # sym THEN h
             ELSE IF o.side = "buy"
             THEN [quantity |-> h.quantity + o.quantity,
                   average |-> FracOver(FracPlus(FracTimes(h.average, h.quantity),
                                                 Num(o.price * o.quantity)),
                                        h.quantity + o.quantity)]
             ELSE [quantity |-> h.quantity - o.quantity, average |-> h.average]

FilledSells(hist) == {i \in 1..Len(hist) : Filled(hist[i]) /\ hist[i].side = "sell"}

\* no sell exceeds the quantity held of its symbol when it is placed
NoOversell(hist) ==
    \A i \in FilledSells(hist) :
        hist[i].quantity <= Holding(hist, hist[i].symbol, i - 1).quantity

\* every sell executes at the average price of the holding it reduces
SellsAtAverage(hist) ==
    \A i \in FilledSells(hist) :
        Num(hist[i].price) = Holding(hist, hist[i].symbol, i - 1).average

----------------------------------------------------------------------------
(* C1: the balance is the seed balance minus price * quantity of every filled   *)
(* buy plus price * quantity of every filled sell of the history, price being   *)
(* the recorded execution price: each filled order moves the balance by exactly *)
(* that amount, from 1,000,000 on.                                              *)
C1_BalanceFollowsFilledOrders == balance = SeedBalance + NetCash(orders)

C1_Witness ==
    /\ Len(orders) >= 2
    /\ \E i, j \in 1..Len(orders) :
          /\ Filled(orders[i]) /\ orders[i].side = "buy"
          /\ Filled(orders[j]) /\ orders[j].side = "sell"
    /\ balance # SeedBalance

(* C2, as stated: with no sell exceeding the holding, seed balance minus balance *)
(* equals the sum of averagePrice * quantity over the positions, whatever the    *)
(* prices of the sells.                                                          *)
C2_CostEqualsNetOutflow_AnySellPrice ==
    NoOversell(orders) => Num(SeedBalance - balance) = PositionCost

(* C2, amended: the equality holds when, besides, every sell executes at the     *)
(* average price of the position it reduces.                                     *)
C2_CostEqualsNetOutflow_SellsAtAverage ==
    (NoOversell(orders) /\ SellsAtAverage(orders))
        => Num(SeedBalance - balance) = PositionCost

C2_Witness ==
    /\ NoOversell(orders) /\ SellsAtAverage(orders)
    /\ FilledSells(orders) # {}
    /\ \E s \in DOMAIN positions : positions[s].averagePrice.d # 1
    /\ Num(SeedBalance - balance) = PositionCost

(* C3: placing a limit order, which is created pending, leaves the balance and   *)
(* the position mapping as they were; the order is appended to the history and   *)
(* nothing else of the ledger changes.                                           *)
C3_LimitOrderLeavesLedger ==
    [][ (Placed /\ Last(orders').type = "limit")
            => /\ Last(orders').status = "pending"
               /\ balance' = balance
               /\ positions' = positions
               /\ orders' = Append(orders, Last(orders')) ]_vars

C3_Witness ==
    /\ lastReturn.kind = "order"
    /\ lastReturn.order.type = "limit" /\ lastReturn.order.status = "pending"
    /\ Last(orders) = lastReturn.order
    /\ lastReturn.order.symbol \in DOMAIN positions
    /\ balance = SeedBalance + NetCash(SubSeq(orders, 1, Len(orders) - 1))

(* C4: every symbol present in the position mapping has a quantity above zero.   *)
C4_PositionsArePositive ==
    \A s \in DOMAIN positions : positions[s].quantity > 0

C4_Witness ==
    /\ lastReturn.kind = "order"
    /\ Filled(lastReturn.order) /\ lastReturn.order.side = "sell"
    /\ \E i \in 1..(Len(orders) - 1) :
          /\ Filled(orders[i]) /\ orders[i].side = "buy"
          /\ orders[i].symbol = lastReturn.order.symbol
          /\ orders[i].quantity <= lastReturn.order.quantity
    /\ lastReturn.order.symbol \notin DOMAIN positions
    /\ positions # <<>>

(* C5: when the quote lookup of a placeOrder call fails, the call fails with the *)
(* error of the lookup, and balance, positions and history are as before.        *)
C5_QuoteFailureLeavesLedger ==
    [][ (lastReturn' # lastReturn /\ ~lastReturn'.quote.ok)
            => /\ lastReturn'.kind = "error"
               /\ lastReturn'.error = lastReturn'.quote.error
               /\ balance' = balance
               /\ positions' = positions
               /\ orders' = orders ]_vars

C5_Witness ==
    /\ lastReturn.kind = "error"
    /\ lastReturn.error = "API rate limit reached"
    /\ orders # <<>> /\ positions # <<>>

(* C6: a market order returned by placeOrder is filled and its price is the      *)
(* price of the quote resolved in that call, whatever limitPrice was passed.     *)
C6_MarketOrderAtQuotePrice ==
    (lastReturn.kind = "order" /\ lastReturn.order.type = "market")
        => /\ lastReturn.order.status = "filled"
           /\ lastReturn.order.price = lastReturn.quote.data.price

C6_Witness ==
    /\ lastReturn.kind = "order" /\ lastReturn.order.type = "market"
    /\ lastReturn.limitPrice = Some(150)
    /\ lastReturn.order.status = "filled"
    /\ lastReturn.order.price = 200

(* C7: the price of a limit order is the limitPrice passed, for every number     *)
(* passed; the quote price is used only when no limitPrice is passed.            *)
C7_LimitOrderAtLimitPrice ==
    (lastReturn.kind = "order" /\ lastReturn.order.type = "limit")
        => lastReturn.order.price =
              IF lastReturn.limitPrice # Undefined THEN lastReturn.limitPrice[1]
              ELSE lastReturn.quote.data.price

(* C8: a filled buy of q2 at p2 of a symbol held with quantity q1 at average a1  *)
(* leaves quantity q1 + q2 and average (a1*q1 + p2*q2) / (q1 + q2); a first buy  *)
(* creates the position with the order's quantity, averagePrice = currentPrice = *)
(* the order's price and zero P&L.  10 at 100 then 10 at 200 gives 20 at 150.    *)
C8_BuyStep ==
    LET o == Last(orders')
        sym == o.symbol
    IN  (Placed /\ Filled(o) /\ o.side = "buy")
            => /\ sym \in DOMAIN positions'
               /\ IF sym \in DOMAIN positions
                  THEN LET q1 == positions[sym].quantity
                           a1 == positions[sym].averagePrice
                           a2 == positions'[sym].averagePrice
                       IN  /\ positions'[sym].quantity = q1 + o.quantity
                           \* a2 = (a1*q1 + p2*q2) / (q1 + q2), cross-multiplied
                           /\ a2.n * (q1 + o.quantity) * a1.d
                                = (a1.n * q1 + o.price * o.quantity * a1.d) * a2.d
                  ELSE positions'[sym] =
                          [symbol |-> sym, quantity |-> o.quantity,
                           averagePrice |-> Num(o.price), currentPrice |-> o.price,
                           pnl |-> Num(0), pnlPercent |-> Num(0)]

IsBuy(o, q, p) == Filled(o) /\ o.side = "buy" /\ o.quantity = q /\ o.price = p

C8_TenAt100ThenTenAt200 ==
    (/\ Len(orders) = 2 /\ orders[1].symbol = orders[2].symbol
     /\ IsBuy(orders[1], 10, 100) /\ IsBuy(orders[2], 10, 200))
        => /\ positions[orders[1].symbol].quantity = 20
           /\ positions[orders[1].symbol].averagePrice = Num(150)

C8_WeightedAverageOnBuy == []C8_TenAt100ThenTenAt200 /\ [][C8_BuyStep]_vars

C8_Witness ==
    /\ Len(orders) = 2 /\ orders[1].symbol = orders[2].symbol
    /\ IsBuy(orders[1], 10, 100) /\ IsBuy(orders[2], 10, 200)
    /\ positions[orders[1].symbol].quantity = 20
    /\ positions[orders[1].symbol].averagePrice = Num(150)
    /\ positions[orders[1].symbol].currentPrice = 100

(* C9: a filled sell of at least the quantity held removes the symbol from the   *)
(* positions, and a later buy of the symbol starts a position at that buy's      *)
(* price.                                                                        *)
C9_Step ==
    LET o == Last(orders')
        sym == o.symbol
    IN  /\ (Placed /\ Filled(o) /\ o.side = "sell" /\ sym \in DOMAIN positions
               /\ o.quantity >= positions[sym].quantity)
            => sym \notin DOMAIN positions'
        /\ (Placed /\ Filled(o) /\ o.side = "buy" /\ sym \notin DOMAIN positions)
            => /\ sym \in DOMAIN positions'
               /\ positions'[sym].quantity = o.quantity
               /\ positions'[sym].averagePrice = Num(o.price)

C9_SellOutRemovesPosition == [][C9_Step]_vars

C9_Witness ==
    /\ Len(orders) = 3
    /\ \A i \in 1..3 : orders[i].symbol = orders[1].symbol
    /\ IsBuy(orders[1], 5, 100)
    /\ Filled(orders[2]) /\ orders[2].side = "sell" /\ orders[2].quantity = 5
    /\ IsBuy(orders[3], 10, 200)
    /\ positions[orders[1].symbol].quantity = 10
    /\ positions[orders[1].symbol].averagePrice = Num(200)

(* C10: a filled sell of fewer units than are held takes the sold quantity off   *)
(* the position and changes nothing else of the position mapping: not the        *)
(* averagePrice, and no other position.                                          *)
C10_Step ==
    LET o == Last(orders')
        sym == o.symbol
    IN  (Placed /\ Filled(o) /\ o.side = "sell" /\ sym \in DOMAIN positions
            /\ o.quantity < positions[sym].quantity)
          => positions' = [positions EXCEPT ![sym].quantity = @ - o.quantity]

C10_PartialSellKeepsAverage == [][C10_Step]_vars

C10_Witness ==
    /\ lastReturn.kind = "order"
    /\ Filled(lastReturn.order) /\ lastReturn.order.side = "sell"
    /\ Len(orders) = 3 /\ Last(orders) = lastReturn.order
    /\ Cardinality(DOMAIN positions) = 2
    /\ positions[lastReturn.order.symbol].quantity = 5
    /\ positions[lastReturn.order.symbol].averagePrice = Num(100)
    /\ lastReturn.order.price = 200

(* C11: a market sell of a symbol with no open position is accepted and filled:  *)
(* it credits the balance by price * quantity, creates no position, and is       *)
(* appended to the history.                                                      *)
C11_Step ==
    LET o == Last(orders')
    IN  (Placed /\ o.type = "market" /\ o.side = "sell"
            /\ o.symbol \notin DOMAIN positions)
          => /\ Filled(o)
             /\ balance' = balance + o.price * o.quantity
             /\ positions' = positions
             /\ orders' = Append(orders, o)
             /\ lastReturn' = [kind |-> "order", order |-> o,
                               limitPrice |-> lastReturn'.limitPrice,
                               quote |-> lastReturn'.quote]

C11_SellOfUnheldSymbolIsCredited == [][C11_Step]_vars

C11_Witness ==
    /\ Len(orders) = 2
    /\ IsBuy(orders[1], 10, 100) /\ orders[1].symbol = RELIANCE
    /\ Filled(orders[2]) /\ orders[2].side = "sell" /\ orders[2].symbol = RELIANCE_NS
    /\ orders[2].quantity = 5 /\ orders[2].price = 200
    /\ balance = SeedBalance - 1000 + 1000
    /\ DOMAIN positions = {RELIANCE}
    /\ lastReturn.kind = "order" /\ lastReturn.order = orders[2]

(* C12: placeOrder never rejects an order for lack of funds: a market buy whose  *)
(* price * quantity exceeds the balance is filled, its position is created or    *)
(* increased by the quantity, and the balance becomes negative; a call is        *)
(* rejected only when its quote lookup fails.                                    *)
C12_Step ==
    LET o == Last(orders')
        sym == o.symbol
        held == IF sym \in DOMAIN positions THEN positions[sym].quantity ELSE 0
    IN  /\ (Placed /\ o.type = "market" /\ o.side = "buy"
                /\ o.price * o.quantity > balance)
            => /\ Filled(o)
               /\ balance' = balance - o.price * o.quantity
               /\ balance' < 0
               /\ sym \in DOMAIN positions'
               /\ positions'[sym].quantity = held + o.quantity
        /\ (lastReturn' # lastReturn /\ lastReturn'.kind = "error")
            => ~lastReturn'.quote.ok

C12_BuyBeyondBalanceIsFilled == [][C12_Step]_vars

C12_Witness ==
    /\ Len(orders) = 2
    /\ IsBuy(orders[1], 5, 200000) /\ IsBuy(orders[2], 10, 200000)
    /\ balance = 0 - 2000000
    /\ positions[RELIANCE_NS].quantity = 15
    /\ positions[RELIANCE_NS].averagePrice = Num(200000)

(* C13: the history is append-only: a step leaves it as it was or extends it by  *)
(* one entry at the end, the order returned by the call that completed in that   *)
(* step, so every earlier history is a prefix of every later one and no entry is *)
(* removed, reordered or altered; a call that resumes from its quote lookup      *)
(* appends exactly one entry when it succeeds and none when it fails.            *)
C13_Step ==
    /\ \/ orders' = orders
       \/ /\ Len(orders') = Len(orders) + 1
          /\ SubSeq(orders', 1, Len(orders)) = orders
          /\ lastReturn'.kind = "order"
          /\ Last(orders') = lastReturn'.order
    /\ (DOMAIN calls' # DOMAIN calls /\ DOMAIN calls' \subseteq DOMAIN calls)
          => IF lastReturn'.kind = "order"
             THEN orders' = Append(orders, lastReturn'.order)
             ELSE orders' = orders

C13_HistoryIsAppendOnly == [][C13_Step]_vars

C13_Witness ==
    /\ Len(orders) = 3
    /\ orders[1].type = "limit" /\ orders[1].status = "pending"
    /\ Filled(orders[2]) /\ orders[2].side = "sell"
    /\ IsBuy(orders[3], 10, 200)
    /\ lastReturn.kind = "order" /\ lastReturn.order = orders[3]

(* C14: positions are recorded under the normalized symbol: every position is    *)
(* keyed and labelled by a symbol that formatSymbol leaves as it is; after a     *)
(* single market buy of 10 "RELIANCE" at price p the balance is the seed minus   *)
(* 10 * p and the positions are exactly one entry, "RELIANCE.NS", 10 at p; and   *)
(* no two positions have symbols that normalize to the same value.               *)
C14_PositionsUnderNormalizedSymbol ==
    /\ \A s \in DOMAIN positions :
          formatSymbol(s) = s /\ positions[s].symbol = s
    /\ (Len(orders) = 1 /\ orders[1].symbol = RELIANCE
            /\ IsBuy(orders[1], 10, orders[1].price))
          => /\ balance = SeedBalance - 10 * orders[1].price
             /\ DOMAIN positions = {RELIANCE_NS}
             /\ positions[RELIANCE_NS].symbol = RELIANCE_NS
             /\ positions[RELIANCE_NS].quantity = 10
             /\ positions[RELIANCE_NS].averagePrice = Num(orders[1].price)
    /\ \A s, t \in DOMAIN positions : formatSymbol(s) = formatSymbol(t) => s = t

(* C15: the ledger (balance, every field of every position, history) changes     *)
(* only as the effect of a placeOrder call: a step that changes it appends the   *)
(* order of a completed call, and leaves the balance and the positions that      *)
(* updatePortfolio computes for that order; no step of the UI's price fetch or   *)
(* order handler alters a position besides.                                      *)
C15_Step ==
    LET o == Last(orders')
        after == IF Filled(o) THEN updatePortfolio(balance, positions, o)
                 ELSE [balance |-> balance, positions |-> positions]
    IN  ledger' # ledger
          => /\ Placed
             /\ balance' = after.balance
             /\ positions' = after.positions

C15_LedgerChangesOnlyByPlaceOrder == [][C15_Step]_vars

(* C16: every order of the history has an identifier different from that of      *)
(* every other order of the history.                                             *)
C16_OrderIdsAreDistinct ==
    \A i, j \in 1..Len(orders) : i # j => orders[i].id # orders[j].id

----------------------------------------------------------------------------
(* Vocabulary of the cache properties *)

\* the requests sent, and the requests answered, in a step
Sent == DOMAIN requests' \ DOMAIN requests
Answered == DOMAIN requests \ DOMAIN requests'

\* the cache a call of the quote provider reads and writes, and its key
CacheOf(op) == IF op = "getLatestPrice" THEN quoteCache ELSE chartCache
CacheOfNext(op) == IF op = "getLatestPrice" THEN quoteCache' ELSE chartCache'
KeyOf(q) == IF q.op = "getLatestPrice" THEN q.formatted ELSE q.cacheKey

\* the key the arguments of a call stand for
KeyOfArgs(op, args) ==
    IF op = "getLatestPrice" THEN formatSymbol(args[1])
    ELSE ChartKey(formatSymbol(args[1]), args[2])

\* a step that shows a call to have finished: a new settled promise
Returned ==
    /\ lastResult'.kind = "result"
    /\ \/ lastResult.kind = "none"
       \/ lastResult.op # lastResult'.op
       \/ lastResult # lastResult'

Within(c, k) == k \in DOMAIN c /\ now - c[k].timestamp < 5 * 60 * 1000

(* C17: a getLatestPrice call made less than 5 minutes after a successful fetch  *)
(* for a symbol that normalizes to the same value returns the payload of the     *)
(* cache entry and sends nothing upstream; no call goes upstream while such an   *)
(* entry exists; a call that goes upstream and succeeds replaces the entry with  *)
(* its payload, stamped with the time of the answer.  The same for               *)
(* getHistoricalData per key of normalized symbol and interval.                  *)
C17_Step ==
    /\ \A r \in Sent :
          ~Within(CacheOf(requests'[r].op), KeyOf(requests'[r]))
    /\ (Returned /\ lastResult'.source = "cache")
          => LET c == CacheOf(lastResult'.op)
                 k == KeyOfArgs(lastResult'.op, lastResult'.args)
             IN  /\ Within(c, k)
                 /\ lastResult'.key = k
                 /\ lastResult'.outcome = Fulfilled(c[k].data)
                 /\ requests' = requests
                 /\ quoteCache' = quoteCache /\ chartCache' = chartCache
    /\ \A r \in Answered :
          LET q == requests[r]
          IN  /\ lastResult'.source = "upstream"
              /\ lastResult'.key = KeyOf(q)
              /\ KeyOf(q) = KeyOfArgs(q.op, lastResult'.args)
              /\ lastResult'.outcome.ok
                    => CacheOfNext(q.op)[KeyOf(q)] =
                          [data |-> lastResult'.outcome.data, timestamp |-> now]

C17_FreshEntryIsServed == [][C17_Step]_vars

C17_Witness ==
    /\ now = CACHE_TTL
    /\ lastResult.kind = "result" /\ lastResult.op = "getLatestPrice"
    /\ lastResult.args = <<RELIANCE>> /\ lastResult.source = "cache"
    /\ quoteCache[RELIANCE_NS].timestamp = CACHE_TTL
    /\ lastResult.outcome = Fulfilled(quoteCache[RELIANCE_NS].data)
    /\ lastResult.outcome.data.price = 200
    /\ ChartKey(RELIANCE_NS, FiveMin) \in DOMAIN chartCache
    /\ chartCache[ChartKey(RELIANCE_NS, FiveMin)].timestamp = CACHE_TTL - 1

(* C19: an upstream quote response with an error marker, a rate-limit marker or  *)
(* no price makes getLatestPrice fail; the failure is what the caller gets, and  *)
(* the quote cache is exactly as it was before the answer.                       *)
C19_MarkersFail ==
    \A resp \in UpstreamResponses, symbol \in Symbols :
        LET formatted == formatSymbol(symbol)
            outcome == ParseQuote(formatted, resp)
        IN  (resp.transport = "ok"
                /\ (resp.errorMessage \/ resp.note \/ ~resp.hasQuote))
              => /\ ~outcome.ok
                 /\ outcome.error \in {"Symbol not found", "API rate limit reached",
                                       "No data found for this symbol"}
                 /\ CacheAfter(formatted, outcome) = quoteCache

C19_Step ==
    \A r \in Answered :
        (requests[r].op = "getLatestPrice" /\ ~lastResult'.outcome.ok)
          => /\ lastResult'.op = "getLatestPrice"
             /\ lastResult'.key = requests[r].formatted
             /\ quoteCache' = quoteCache

CacheFor(op) ==
    IF op = "getLatestPrice" THEN quoteCache
    ELSE IF op = "getHistoricalData" THEN chartCache
    ELSE IF op = "searchSymbols" THEN searchCache
    ELSE cache

RequestKey(q) ==
    IF q.op = "getLatestPrice" THEN q.formatted
    ELSE IF q.op = "searchSymbols" THEN q.keywords
    ELSE q.cacheKey

(* C18: a cache entry is served only while now - timestamp < 5 minutes: what a   *)
(* call returns from a cache is the data of an entry younger than that, and a    *)
(* call that finds an entry of exactly that age or older goes to the upstream    *)
(* as if there were none; in the quote, chart and search cache of the client and *)
(* in the cache of the proxy server.                                             *)
C18_Step ==
    /\ (Returned /\ lastResult'.source = "cache")
          => LET c == CacheFor(lastResult'.op)
                 k == lastResult'.key
             IN  /\ k \in DOMAIN c
                 /\ now - c[k].timestamp < 5 * 60 * 1000
                 /\ lastResult'.outcome = Fulfilled(c[k].data)
    /\ \A r \in Sent :
          LET c == CacheFor(requests'[r].op)
              k == RequestKey(requests'[r])
          IN  k \in DOMAIN c => now - c[k].timestamp >= 5 * 60 * 1000

C18_OnlyFreshEntriesAreServed == [][C18_Step]_vars

C18_Witness ==
    /\ now = CACHE_TTL
    /\ lastResult.kind = "result" /\ lastResult.op = "stock"
    /\ lastResult.source = "upstream" /\ ~lastResult.outcome.ok
    /\ lastResult.key \in DOMAIN cache
    /\ now - cache[lastResult.key].timestamp = 5 * 60 * 1000
    /\ \E k \in DOMAIN quoteCache : quoteCache[k].timestamp = CACHE_TTL
    /\ \E k \in DOMAIN chartCache : chartCache[k].timestamp = CACHE_TTL - 1
    /\ \E k \in DOMAIN searchCache : searchCache[k].timestamp = 0

\* C20: symbol normalization is idempotent: normalizing the result of a
\* normalization returns it unchanged, on the client and on the server;
\* "reliance" normalizes to "RELIANCE.NS" and "RELIANCE.BO" to itself; and the
\* client and the server normalize every string to the same result.
C20_NormalizationIsIdempotent ==
    /\ formatSymbol(formatSymbol(symbolText)) = formatSymbol(symbolText)
    /\ formatSymbolServer(formatSymbolServer(symbolText))
            = formatSymbolServer(symbolText)
    /\ formatSymbolServer(symbolText) = formatSymbol(symbolText)
    /\ symbolText = reliance => formatSymbol(symbolText) = RELIANCE_NS
    /\ symbolText = RELIANCE_BO => formatSymbol(symbolText) = RELIANCE_BO
    /\ lastResult.kind = "result" =>
            /\ symbolText = lastResult.outcome
            /\ formatSymbol(lastResult.outcome) = lastResult.outcome
            /\ formatSymbolServer(lastResult.outcome) = lastResult.outcome
            /\ lastResult.args[1] = reliance => lastResult.outcome = RELIANCE_NS
            /\ lastResult.args[1] = RELIANCE_BO => lastResult.outcome = RELIANCE_BO

\* "reliance" has been normalized to "RELIANCE.NS", and the server has
\* normalized that result again and returned it unchanged ("RELIANCE.NS" is in
\* no initial state: it is at hand only as the result of normalizing "reliance")
C20_Witness ==
    /\ lastResult.kind = "result"
    /\ lastResult.op = "formatSymbolServer"
    /\ lastResult.args[1] = RELIANCE_NS
    /\ lastResult.outcome = RELIANCE_NS
    /\ symbolText = RELIANCE_NS

\* C21: getHistoricalData never succeeds with an empty candle sequence: a call
\* that has returned candles has returned at least one, and no chart cache
\* entry holds an empty sequence.
C21_NoEmptyChartData ==
    /\ (/\ lastResult.kind = "result"
         /\ lastResult.op \in {"getHistoricalData", "proxyGetHistoricalData"}
         /\ lastResult.outcome.ok)
        => Len(lastResult.outcome.data) > 0
    /\ \A k \in DOMAIN chartCache : Len(chartCache[k].data) > 0

SearchOps == {"searchSymbols", "proxySearchSymbols", "search"}

(* C22: a search with a query shorter than 2 characters, the empty query         *)
(* included, returns an empty sequence, sends nothing upstream and leaves the    *)
(* search cache as it is: no search request in flight and no search cache entry  *)
(* is ever for such a query.                                                     *)
C22_ShortQueries ==
    /\ \A r \in DOMAIN requests :
          /\ requests[r].op \in {"searchSymbols", "proxySearchSymbols"}
                => Len(requests[r].keywords) >= 2
          /\ requests[r].op = "search" => Len(requests[r].cacheKey) >= 2
    /\ \A k \in DOMAIN searchCache : Len(k) >= 2
    /\ (lastResult.kind = "result" /\ lastResult.op \in SearchOps
            /\ Len(lastResult.key) < 2)
          => /\ lastResult.outcome = Fulfilled(<<>>)
             /\ lastResult.source = "none"

C22_Step ==
    (Returned /\ lastResult'.op \in SearchOps /\ Len(lastResult'.key) < 2)
        => /\ requests' = requests
           /\ searchCache' = searchCache
           /\ cache' = cache

C22_ShortQueryReturnsEmpty == []C22_ShortQueries /\ [][C22_Step]_vars

\* a search for "T" has returned [] while the search cache holds an entry for
\* "TCS" and a search is in flight
C22_Witness ==
    /\ lastResult.kind = "result" /\ lastResult.op = "searchSymbols"
    /\ lastResult.args = <<KeywordT>>
    /\ lastResult.outcome = Fulfilled(<<>>)
    /\ KeywordTCS \in DOMAIN searchCache
    /\ requests # <<>>

\* an upstream search answer that is a failure: no answer, a rate-limit marker,
\* or no result list
SearchFailed(resp) ==
    IF resp.transport = "failed" THEN TRUE ELSE resp.note \/ ~resp.hasMatches

(* C23: searchSymbols never fails: whatever upstream answers, the call returns   *)
(* a sequence; on a transport error, a rate-limit marker or a missing result     *)
(* list the sequence is empty and the search cache is as it was before, so that  *)
(* the keywords have no entry from this answer; the server's search answers []   *)
(* when its upstream throws and stores nothing.                                  *)
C23_FailuresGiveEmpty ==
    /\ \A resp \in SearchResponses, keywords \in SearchKeywords :
          SearchFailed(resp)
            => /\ SearchData(resp) = <<>>
               /\ SearchCacheAfter(keywords, resp) = searchCache
    /\ \A resp \in ProxySearchResponses :
          resp.transport = "failed" => ProxySearchData(resp) = <<>>
    /\ \A results \in YahooSearches : results.threw => Suggestions(results) = <<>>
    /\ (lastResult.kind = "result" /\ lastResult.op \in SearchOps)
          => lastResult.outcome.ok

C23_Step ==
    \A r \in Answered :
        requests[r].op \in SearchOps
          => /\ lastResult'.outcome.ok
             /\ cache' = cache
             /\ \/ searchCache' = searchCache
                \/ /\ requests[r].op = "searchSymbols"
                   /\ searchCache' =
                         MapSet(searchCache, requests[r].keywords,
                                [data |-> lastResult'.outcome.data, timestamp |-> now])
                   /\ \E resp \in SearchResponses :
                         /\ ~SearchFailed(resp)
                         /\ SearchData(resp) = lastResult'.outcome.data

C23_SearchNeverFails == []C23_FailuresGiveEmpty /\ [][C23_Step]_vars

\* a search for "TCS" has come back empty from upstream, nothing is cached,
\* and the next search for "TCS" is in flight upstream again
C23_Witness ==
    /\ lastResult.kind = "result" /\ lastResult.op = "searchSymbols"
    /\ lastResult.args = <<KeywordTCS>> /\ lastResult.source = "upstream"
    /\ lastResult.outcome = Fulfilled(<<>>)
    /\ searchCache = <<>>
    /\ \E r \in DOMAIN requests :
          requests[r].op = "searchSymbols" /\ requests[r].keywords = KeywordTCS

(* C24: both endpoints of the proxy server cache their responses for 5 minutes:  *)
(* while less than 5 minutes have passed since a request was answered            *)
(* successfully from upstream, a request to the same endpoint with the same key  *)
(* (normalized symbol, interval and range; or query) makes no call upstream;     *)
(* and an error response leaves the cache as it was.                             *)
C24_Step ==
    /\ \A r \in Sent :
          ~(/\ now < SERVER_CACHE_TTL
            /\ lastResult.kind = "result"
            /\ lastResult.op = requests'[r].op
            /\ lastResult.op \in {"stock", "search"}
            /\ lastResult.key = requests'[r].cacheKey
            /\ lastResult.source = "upstream"
            /\ lastResult.outcome.ok)
    /\ \A r \in Answered : ~lastResult'.outcome.ok => cache' = cache

C24_BothEndpointsCache == [][C24_Step]_vars

\* the ledger after the first k orders of a history, applied one after another
\* to the seed ledger
RECURSIVE AppliedInTurn(_, _)
AppliedInTurn(hist, k) ==
    IF k = 0 THEN [balance |-> SeedBalance, positions |-> <<>>]
    ELSE LET before == AppliedInTurn(hist, k - 1)
         IN  IF Filled(hist[k])
             THEN updatePortfolio(before.balance, before.positions, hist[k])
             ELSE before

(* C25: with several placeOrder calls suspended at once, the balance and the     *)
(* positions are in every state those of the history applied order by order to   *)
(* the seed ledger, the history being in the order the lookups completed; a      *)
(* completing call appends its own order and applies it whole in the same step,  *)
(* and no other step changes the balance, the positions or the history.          *)
C25_LedgerIsHistoryInTurn ==
    /\ balance = AppliedInTurn(orders, Len(orders)).balance
    /\ positions = AppliedInTurn(orders, Len(orders)).positions

C25_Step ==
    /\ \A c \in DOMAIN calls \ DOMAIN calls' :
          lastReturn'.kind = "order"
            => /\ orders' = Append(orders, lastReturn'.order)
               /\ lastReturn'.order.symbol = calls[c].order.symbol
               /\ lastReturn'.order.side = calls[c].order.side
               /\ lastReturn'.order.quantity = calls[c].order.quantity
               /\ \A d \in DOMAIN calls \ {c} : calls'[d] = calls[d]
    /\ orders' = orders => (balance' = balance /\ positions' = positions)
    /\ orders' # orders
          => /\ Len(orders') = Len(orders) + 1
             /\ SubSeq(orders', 1, Len(orders)) = orders
             /\ [balance |-> balance', positions |-> positions'] =
                   IF Filled(Last(orders'))
                   THEN updatePortfolio(balance, positions, Last(orders'))
                   ELSE [balance |-> balance, positions |-> positions]

C25_LedgerMutationIsAtomic == []C25_LedgerIsHistoryInTurn /\ [][C25_Step]_vars

\* two calls overlapped: the one in slot 2 has completed and its buy of 10 is
\* in the balance, the positions and the history, while the call in slot 1,
\* made before that completion, is still suspended
C25_Witness ==
    /\ now = 0
    /\ DOMAIN calls = {1}
    /\ calls[1].order = Intent(RELIANCE_NS, "market", "sell", 5)
    /\ Len(orders) = 1 /\ IsBuy(orders[1], 10, 200)
    /\ balance = SeedBalance - 2000
    /\ DOMAIN positions = {RELIANCE_NS}

(* C28: the status of an order never changes after the order is created: every   *)
(* market order of the history is filled, every limit order is pending, no       *)
(* order is cancelled, and a step leaves the status of every order already in    *)
(* the history as it is.                                                         *)
C28_StatusByType ==
    \A i \in 1..Len(orders) :
        /\ orders[i].type = "market" => orders[i].status = "filled"
        /\ orders[i].type = "limit" => orders[i].status = "pending"
        /\ orders[i].status # "cancelled"

C28_Step ==
    /\ Len(orders') >= Len(orders)
    /\ \A i \in 1..Len(orders) :
          /\ orders'[i].id = orders[i].id
          /\ orders'[i].status = orders[i].status

C28_StatusNeverChanges == []C28_StatusByType /\ [][C28_Step]_vars

\* a limit buy at 150 is still pending after a market order on the same symbol
\* was filled at 100, a price at which the limit order could have been filled
C28_Witness ==
    /\ Len(orders) >= 2
    /\ orders[1].type = "limit" /\ orders[1].side = "buy" /\ orders[1].price = 150
    /\ orders[1].status = "pending"
    /\ orders[2].type = "market" /\ orders[2].status = "filled"
    /\ orders[2].price = 100
    /\ formatSymbol(orders[2].symbol) = formatSymbol(orders[1].symbol)

\* the three fields of a position as the quote price makes them
PricedAt(pos, price) ==
    LET pnl == FracTimes(FracMinus(Num(price), pos.averagePrice), pos.quantity)
    IN  /\ pos.currentPrice = price
        /\ pos.pnl = pnl
        /\ pos.pnlPercent =
              FracTimes(FracDivide(pnl, FracTimes(pos.averagePrice, pos.quantity)), 100)

(* C27: when a price fetch of the UI succeeds, the position held for the symbol  *)
(* of the quote has currentPrice equal to the quote price, pnl equal to          *)
(* (currentPrice - averagePrice) * quantity and pnlPercent equal to              *)
(* pnl / (averagePrice * quantity) * 100, with the quantity and averagePrice     *)
(* the position has after the latest order, and every other position is as it    *)
(* was; the same holds, with the quote the order panel shows, for the position   *)
(* of that quote's symbol right after an order placed by the UI.                 *)
C27_Step ==
    /\ (/\ Returned
         /\ lastResult'.op = "getLatestPrice"
         /\ lastResult'.outcome.ok)
        => \A sym \in DOMAIN positions' :
              IF sym = lastResult'.outcome.data.symbol
              THEN /\ PricedAt(positions'[sym], lastResult'.outcome.data.price)
                   /\ positions'[sym].quantity = Replay(orders, Len(orders))[sym].quantity
                   /\ positions'[sym].averagePrice =
                         Replay(orders, Len(orders))[sym].averagePrice
              ELSE positions'[sym] = positions[sym]
    /\ Placed
        => LET done == DOMAIN calls \ DOMAIN calls'
               info == IF done = {} THEN priceInfo[1]
                       ELSE calls[CHOOSE c \in done : TRUE].priceInfo
               o == Last(orders')
               after == IF Filled(o) THEN updatePortfolio(balance, positions, o).positions
                        ELSE positions
           IN  /\ DOMAIN positions' = DOMAIN after
               /\ \A sym \in DOMAIN positions' :
                     IF sym = info.symbol
                     THEN /\ PricedAt(positions'[sym], info.price)
                          /\ positions'[sym].quantity = after[sym].quantity
                          /\ positions'[sym].averagePrice = after[sym].averagePrice
                     ELSE positions'[sym] = after[sym]

C27_QuoteRefreshesHeldPosition == [][C27_Step]_vars

(* C26: while a symbol stays selected, fetchPrice is invoked for it by the run   *)
(* of the effect that follows mounting or the selection, and afterwards only by  *)
(* the interval: never by a run of the effect that a completed fetch has made    *)
(* due.  At most one interval is active, none after unmounting, and once the     *)
(* effect has run the active interval polls the selected symbol.                 *)
C26_PollingOnlyOnSelectionAndTimer ==
    /\ fetchCause \in {"none", "mount", "selected", "timer"}
    /\ Len(timers) <= 1
    /\ ~mounted => timers = <<>>
    /\ (mounted /\ effectDue = "none")
          => (Len(timers) = 1 /\ timers[1] = selectedSymbol)

\* nothing of the UI is in flight or due: no price fetch, no order, no effect
UiSettled == requests = <<>> /\ calls = <<>> /\ effectDue = "none"

(* C30: once the fetches in flight have settled, the quote the order panel shows *)
(* is a quote of the selected symbol; and the limitPrice handed to placeOrder    *)
(* is the price of a quote of the symbol of the order.                           *)
C30_ShownPriceIsOfSelected ==
    /\ (mounted /\ UiSettled /\ priceInfo # Undefined)
          => priceInfo[1].symbol = formatSymbol(selectedSymbol)
    /\ \A c \in DOMAIN calls :
          /\ calls[c].limitPrice = Some(calls[c].priceInfo.price)
          /\ calls[c].priceInfo.symbol = formatSymbol(calls[c].order.symbol)

C30_Step ==
    (Placed /\ calls' = calls)
        => /\ lastReturn'.limitPrice = Some(priceInfo[1].price)
           /\ priceInfo[1].symbol = formatSymbol(Last(orders').symbol)

C30_PriceBelongsToSelected == []C30_ShownPriceIsOfSelected /\ [][C30_Step]_vars

(* C29: every order the order panel submits to placeOrder has a quantity that *)
(* is an integer of at least 1, whatever was typed into the quantity field   *)
(* and whichever of its two buttons were clicked before the submit.          *)
C29_SubmittedQuantityIsPositive ==
    /\ \A i \in 1..Len(orders) : orders[i].quantity \in Nat \ {0}
    /\ \A c \in DOMAIN calls : calls[c].order.quantity \in Nat \ {0}

====
